---- MODULE Spec2Model ----
(***************************************************************************)
(* Jacobian chain bracketing (JCDP): the branch & bound sequence optimiser *)
(* (optimizer/branch_and_bound.hpp), the schedulers it calls               *)
(* (scheduler/priority_list.hpp, scheduler/branch_and_bound.hpp,           *)
(* src/branch_and_bound_gpu_offload.cpp) and the operation / sequence      *)
(* algebra they rest on (operation.hpp, sequence.hpp).                     *)
(*                                                                         *)
(* Chain positions j, k, i are 0-based as in the source.  Positions in a   *)
(* Sequence, in the candidate list and in thread_loads are 1-based here    *)
(* (TLA+ sequences); index 0 stands for "no such position".                *)
(***************************************************************************)
EXTENDS Integers, Sequences, FiniteSets, TLC

\* ------------------------------------------------------------------------
\* Bounds of the model
\* ------------------------------------------------------------------------
MaxLen == 3         \* longest Jacobian chain explored by the optimiser
MaxDim == 2         \* matrix dimensions are drawn from 1..MaxDim
MaxEdges == 2       \* edges_in_dag of a factor is drawn from 1..MaxEdges
MaxThreads == 2     \* m_usable_threads is drawn from 1..MaxThreads
MaxWorkers == 2     \* omp_threads, the size of the OpenMP team, is drawn from 1..MaxWorkers
MaxTasks == 3       \* Phase B tasks of a search that a team of several threads runs
MaxFuel == 2        \* frames a scheduler run enters before its deadline passes
MaxSlack == 1       \* distance of a call's upper bound from the critical path
MaxOps == 5         \* operations of a sequence a scheduler is called on

\* std::numeric_limits<std::size_t>::max(): a ceiling above every makespan
\* the bounded chains can produce; it is only ever compared, never added to.
SIZE_MAX == 1000000

\* ------------------------------------------------------------------------
\* operation.hpp
\* ------------------------------------------------------------------------
Max(a, b) == IF a >= b THEN a ELSE b

Min(a, b) == IF a <= b THEN a ELSE b

Front(s) == SubSeq(s, 1, Len(s) - 1)

Last(s) == s[Len(s)]

Operation(action, mode, j, k, i, fma) ==
    [action |-> action, mode |-> mode, j |-> j, k |-> k, i |-> i,
     fma |-> fma, thread |-> 0, start_time |-> 0, is_scheduled |-> FALSE]

\* std::nullopt of std::optional<Operation>
NoOp == Operation("NONE", "NONE", 0, 0, 0, 0)

\* operator<(lhs, rhs): rhs produces an input of lhs
Less(lhs, rhs) ==
    /\ lhs.action # "ACC"
    /\ \/ (lhs.i = rhs.i /\ lhs.k = rhs.j)
       \/ (lhs.j = rhs.j /\ lhs.k + 1 = rhs.i)

\* operator> that knows the lower operand only: a faulty variant that the
\* tree of producers must reject
Greater_lower_only(lhs, rhs) ==
    /\ rhs.action # "ACC"
    /\ rhs.i = lhs.i /\ rhs.k = lhs.j

\* operator> without the test of rhs.action: a faulty variant that the
\* producer relation must reject
Greater_any_action(lhs, rhs) ==
    \/ (rhs.i = lhs.i /\ rhs.k = lhs.j)
    \/ (rhs.j = lhs.j /\ rhs.k + 1 = lhs.i)

\* operator>(lhs, rhs): lhs produces an input of rhs
Greater(lhs, rhs) ==
    /\ rhs.action # "ACC"
    /\ \/ (rhs.i = lhs.i /\ rhs.k = lhs.j)
       \/ (rhs.j = lhs.j /\ rhs.k + 1 = lhs.i)

\* operator==(lhs, rhs)
Equal(lhs, rhs) == lhs.i = rhs.i /\ lhs.j = rhs.j

\* ------------------------------------------------------------------------
\* sequence.hpp
\* ------------------------------------------------------------------------
RECURSIVE makespan_from(_, _)
makespan_from(s, n) ==
    IF n = 0 THEN 0
    ELSE Max(makespan_from(s, n - 1), s[n].start_time + s[n].fma)

\* Sequence::makespan() over all threads
makespan(s) == makespan_from(s, Len(s))

RECURSIVE sum_fma(_, _)
sum_fma(s, n) == IF n = 0 THEN 0 ELSE sum_fma(s, n - 1) + s[n].fma

sequential_makespan(s) == sum_fma(s, Len(s))

\* Sequence::parent: the first operation that consumes s[op_idx], 0 if none
parent(s, op_idx) ==
    LET P == {x \in 1..Len(s) : Less(s[x], s[op_idx])}
    IN  IF P = {} THEN 0 ELSE CHOOSE x \in P : \A y \in P : x <= y

RECURSIVE level(_, _)
level(s, op_idx) ==
    LET p == parent(s, op_idx)
    IN  IF p # 0 THEN level(s, p) + 1 ELSE 1

RECURSIVE critical_path_op(_, _, _)
\* critical_path_op that does not look at the start time an operation
\* carries: a faulty variant that the definition of the critical path must
\* reject
critical_path_op_fma_only(s, op_idx, start_time) ==
    LET end_time == start_time + s[op_idx].fma
        p == parent(s, op_idx)
    IN  IF p # 0 THEN critical_path_op(s, p, end_time) ELSE end_time

\* Sequence::critical_path(op_idx, start_time)
critical_path_op(s, op_idx, start_time) ==
    LET st == Max(start_time, s[op_idx].start_time)
        end_time == st + s[op_idx].fma
        p == parent(s, op_idx)
    IN  IF p # 0 THEN critical_path_op(s, p, end_time) ELSE end_time

RECURSIVE critical_path_from(_, _)
critical_path_from(s, n) ==
    IF n = 0 THEN 0
    ELSE Max(critical_path_from(s, n - 1), critical_path_op(s, n, 0))

critical_path(s) == critical_path_from(s, Len(s))

is_schedulable(s, op_idx) ==
    \A x \in 1..Len(s) : Less(s[op_idx], s[x]) => s[x].is_scheduled

is_scheduled(s) == \A x \in 1..Len(s) : s[x].is_scheduled

RECURSIVE earliest_start_from(_, _, _)
earliest_start_from(s, op_idx, n) ==
    IF n = 0 THEN 0
    ELSE LET time == IF Less(s[op_idx], s[n])
                     THEN s[n].start_time + s[n].fma ELSE 0
         IN  Max(earliest_start_from(s, op_idx, n - 1), time)

\* an operation that waits for none of its producers
earliest_start_none(s, op_idx) == 0

earliest_start(s, op_idx) == earliest_start_from(s, op_idx, Len(s))

count_accumulations(s) == Cardinality({x \in 1..Len(s) : s[x].action = "ACC"})

\* Sequence::make_max
make_max == <<[NoOp EXCEPT !.fma = SIZE_MAX, !.is_scheduled = TRUE]>>

\* ------------------------------------------------------------------------
\* jacobian.hpp / jacobian_chain.hpp (not part of the sources at hand; taken
\* from the specification, sections 3 and 4.3)
\*
\* A chain is [len, dims, edges]: factor F_j is a dims[j+1] x dims[j] matrix
\* with edges[j] edges in its DAG.  The chain state is the pair of bit sets
\* [acc, used] over the sub-Jacobians <<j, i>>, j >= i.
\* ------------------------------------------------------------------------
JacM(chain, j, i) == chain.dims[j + 1]

JacN(chain, j, i) == chain.dims[i]

RECURSIVE EdgesInDag(_, _, _)
EdgesInDag(chain, j, i) ==
    IF j = i THEN chain.edges[j] ELSE chain.edges[j] + EdgesInDag(chain, j - 1, i)

\* Jacobian::fma<Mode::TANGENT>(n) and Jacobian::fma<Mode::ADJOINT>(m)
FmaTangent(chain, j, i, n) == EdgesInDag(chain, j, i) * n

FmaAdjoint(chain, j, i, m) == EdgesInDag(chain, j, i) * m

InitialChainState == [acc |-> {}, used |-> {}]

IsAccumulated(C, j, i) == <<j, i>> \in C.acc

IsUsed(C, j, i) == <<j, i>> \in C.used

\* the memory gate of adjoint operations on the factor (k, k)
MemoryGate(chain, mem, k) == mem = 0 \/ mem >= EdgesInDag(chain, k, k)

\* CanApply with a tangent elimination that does not look at the factor it
\* eliminates: a faulty variant that the leaf assertions must reject
CanApply_any_factor(chain, mf, mem, C, op) ==
    CASE op.action = "ACC" ->
           /\ ~IsAccumulated(C, op.j, op.j)
           /\ (op.mode = "ADJ" => MemoryGate(chain, mem, op.j))
      [] op.action = "MUL" ->
           /\ IsAccumulated(C, op.j, op.k + 1) /\ ~IsUsed(C, op.j, op.k + 1)
           /\ IsAccumulated(C, op.k, op.i) /\ ~IsUsed(C, op.k, op.i)
      [] op.action = "ELI" /\ op.mode = "TAN" ->
           /\ mf
           /\ IsAccumulated(C, op.k, op.i) /\ ~IsUsed(C, op.k, op.i)
      [] op.action = "ELI" /\ op.mode = "ADJ" ->
           /\ mf
           /\ MemoryGate(chain, mem, op.k)
           /\ IsAccumulated(C, op.j, op.k + 1) /\ ~IsUsed(C, op.j, op.k + 1)
           /\ ~IsAccumulated(C, op.k, op.i) /\ ~IsUsed(C, op.k, op.i)
      [] OTHER -> FALSE

\* JacobianChain::apply: can op be applied to the chain state C?
\* An elimination consumes one accumulated sub-Jacobian and one factor that
\* was never accumulated; both become used (each sub-Jacobian is used at
\* most once).
CanApply(chain, mf, mem, C, op) ==
    CASE op.action = "ACC" ->
           /\ ~IsAccumulated(C, op.j, op.j)
           /\ (op.mode = "ADJ" => MemoryGate(chain, mem, op.j))
      [] op.action = "MUL" ->
           /\ IsAccumulated(C, op.j, op.k + 1) /\ ~IsUsed(C, op.j, op.k + 1)
           /\ IsAccumulated(C, op.k, op.i) /\ ~IsUsed(C, op.k, op.i)
      [] op.action = "ELI" /\ op.mode = "TAN" ->
           /\ mf
           /\ IsAccumulated(C, op.k, op.i) /\ ~IsUsed(C, op.k, op.i)
           /\ ~IsAccumulated(C, op.j, op.k + 1) /\ ~IsUsed(C, op.j, op.k + 1)
      [] op.action = "ELI" /\ op.mode = "ADJ" ->
           /\ mf
           /\ MemoryGate(chain, mem, op.k)
           /\ IsAccumulated(C, op.j, op.k + 1) /\ ~IsUsed(C, op.j, op.k + 1)
           /\ ~IsAccumulated(C, op.k, op.i) /\ ~IsUsed(C, op.k, op.i)
      [] OTHER -> FALSE

\* the chain state after a successful apply
Apply(C, op) ==
    IF op.action = "ACC"
    THEN [C EXCEPT !.acc = @ \cup {<<op.j, op.j>>}]
    ELSE [acc |-> C.acc \cup {<<op.j, op.i>>},
          used |-> C.used \cup {<<op.j, op.k + 1>>, <<op.k, op.i>>}]

\* JacobianChain::revert
Revert(C, op) ==
    IF op.action = "ACC"
    THEN [C EXCEPT !.acc = @ \ {<<op.j, op.j>>}]
    ELSE [acc |-> C.acc \ {<<op.j, op.i>>},
          used |-> C.used \ {<<op.j, op.k + 1>>, <<op.k, op.i>>}]

\* JacobianChain::apply as the call the optimiser makes: the returned flag and
\* the chain state the call leaves behind
apply(chain, mf, mem, C, op) ==
    IF CanApply(chain, mf, mem, C, op)
    THEN [ok |-> TRUE, state |-> Apply(C, op)]
    ELSE [ok |-> FALSE, state |-> C]

\* ------------------------------------------------------------------------
\* optimizer/branch_and_bound.hpp: candidate derivation
\* ------------------------------------------------------------------------
\* cheapest_accumulation that takes the size of the DAG for the cost of the
\* tangent accumulation: a faulty variant that scenario S1 must reject
cheapest_accumulation_edges(chain, mem, j) ==
    Operation("ACC", "TAN", j, j, j, EdgesInDag(chain, j, j))

cheapest_accumulation(chain, mem, j) ==
    LET tangent_fma == FmaTangent(chain, j, j, JacN(chain, j, j))
        adjoint_fma == FmaAdjoint(chain, j, j, JacM(chain, j, j))
    IN  IF (mem = 0 \/ mem >= EdgesInDag(chain, j, j)) /\ adjoint_fma < tangent_fma
        THEN Operation("ACC", "ADJ", j, j, j, adjoint_fma)
        ELSE Operation("ACC", "TAN", j, j, j, tangent_fma)

\* LeftOption without the test of m_matrix_free: a faulty variant that the
\* matrix-free property must reject
LeftOption_always(chain, mf, C, op_j, op_i) ==
    IF op_j < chain.len - 1
    THEN LET k == op_j
             i == op_i
             J == {j \in (k + 1)..(chain.len - 1) :
                      IsAccumulated(C, j, k + 1) /\ ~IsUsed(C, j, k + 1)}
         IN  IF J # {}
             THEN LET j == CHOOSE x \in J : \A y \in J : y <= x
                  IN  Operation("MUL", "NONE", j, k, i,
                         JacM(chain, j, k + 1) * JacM(chain, k, i) * JacN(chain, k, i))
             ELSE Operation("ELI", "TAN", k + 1, k, i,
                     FmaTangent(chain, k + 1, k + 1, JacN(chain, k, i)))
    ELSE NoOp

\* ops[0]: multiplication from the left or tangent elimination
LeftOption(chain, mf, C, op_j, op_i) ==
    IF op_j < chain.len - 1
    THEN LET k == op_j
             i == op_i
             J == {j \in (k + 1)..(chain.len - 1) :
                      IsAccumulated(C, j, k + 1) /\ ~IsUsed(C, j, k + 1)}
         IN  IF J # {}
             THEN LET j == CHOOSE x \in J : \A y \in J : y <= x
                  IN  Operation("MUL", "NONE", j, k, i,
                         JacM(chain, j, k + 1) * JacM(chain, k, i) * JacN(chain, k, i))
             ELSE IF mf
                  THEN Operation("ELI", "TAN", k + 1, k, i,
                          FmaTangent(chain, k + 1, k + 1, JacN(chain, k, i)))
                  ELSE NoOp
    ELSE NoOp

\* RightOption without the test of m_available_memory: a faulty variant
\* that the memory gate property must reject
RightOption_ungated(chain, mf, mem, C, op_j, op_i) ==
    IF op_i > 0
    THEN LET k == op_i - 1
             j == op_j
             I == {i \in 0..k : IsAccumulated(C, k, i) /\ ~IsUsed(C, k, i)}
         IN  IF I # {}
             THEN LET i == CHOOSE x \in I : \A y \in I : x <= y
                  IN  Operation("MUL", "NONE", j, k, i,
                         JacM(chain, j, k + 1) * JacM(chain, k, i) * JacN(chain, k, i))
             ELSE IF mf
                  THEN Operation("ELI", "ADJ", j, k, k,
                          FmaAdjoint(chain, k, k, JacM(chain, j, k + 1)))
                  ELSE NoOp
    ELSE NoOp

\* ops[1]: multiplication from the right or adjoint elimination
RightOption(chain, mf, mem, C, op_j, op_i) ==
    IF op_i > 0
    THEN LET k == op_i - 1
             j == op_j
             I == {i \in 0..k : IsAccumulated(C, k, i) /\ ~IsUsed(C, k, i)}
         IN  IF I # {}
             THEN LET i == CHOOSE x \in I : \A y \in I : x <= y
                  IN  Operation("MUL", "NONE", j, k, i,
                         JacM(chain, j, k + 1) * JacM(chain, k, i) * JacN(chain, k, i))
             ELSE IF mf /\ (mem = 0 \/ mem >= EdgesInDag(chain, k, k))
                  THEN Operation("ELI", "ADJ", j, k, k,
                          FmaAdjoint(chain, k, k, JacM(chain, j, k + 1)))
                  ELSE NoOp
    ELSE NoOp

\* push_possible_eliminations with multiplications that cost nothing: a
\* faulty variant that scenario S2 must reject
push_possible_eliminations_free(chain, mf, mem, C, op_j, op_i) ==
    LET left == LeftOption(chain, mf, C, op_j, op_i)
        right == RightOption(chain, mf, mem, C, op_j, op_i)
        free(op) == IF op.action = "MUL" THEN [op EXCEPT !.fma = 0] ELSE op
    IN  <<free(left), free(right)>>

\* the OpPair appended to eliminations
push_possible_eliminations(chain, mf, mem, C, op_j, op_i) ==
    <<LeftOption(chain, mf, C, op_j, op_i),
      RightOption(chain, mf, mem, C, op_j, op_i)>>

\* ------------------------------------------------------------------------
\* scheduler/scheduler.hpp
\* ------------------------------------------------------------------------
\* usable_threads_of without the cap at the number of accumulations: a
\* faulty variant that the bound on the usable threads must reject
usable_threads_of_uncapped(s, threads) ==
    IF threads > 0 THEN threads ELSE count_accumulations(s)

\* Scheduler::schedule: the thread count handed to schedule_impl
usable_threads_of(s, threads) ==
    LET accumulations == count_accumulations(s)
    IN  IF threads > 0 /\ threads < accumulations THEN threads ELSE accumulations

\* ------------------------------------------------------------------------
\* scheduler/priority_list.hpp
\* ------------------------------------------------------------------------
\* queue_less that compares the fma only: a faulty variant that the order
\* of the list scheduler must reject
queue_less_fma(s, op_idx1, op_idx2) == s[op_idx1].fma < s[op_idx2].fma

\* the comparator of the priority queue: op_idx1 comes out after op_idx2
queue_less(s, op_idx1, op_idx2) ==
    LET level_1 == level(s, op_idx1)
        level_2 == level(s, op_idx2)
    IN  IF level_1 = level_2
        THEN s[op_idx1].fma < s[op_idx2].fma
        ELSE level_1 < level_2

\* the orders in which std::priority_queue can hand out the operations:
\* top() is an operation no other queued operation compares greater than;
\* the choice among operations that compare equal is left to the heap
RECURSIVE PopOrdersOf(_, _)
PopOrdersOf(s, queue) ==
    IF queue = {} THEN {<<>>}
    ELSE UNION {{<<top>> \o rest : rest \in PopOrdersOf(s, queue \ {top})} :
                   top \in {x \in queue : \A y \in queue : ~queue_less(s, x, y)}}

PopOrders(s) == PopOrdersOf(s, 1..Len(s))

\* the loop over the threads t = 1 .. usable_threads - 1 (0-based) of one
\* popped operation; cur = [thread, start_time, idle]
\* list_thread_loop that compares the start times only and not the idle
\* gaps: a faulty variant that the choice of the thread must reject
RECURSIVE list_thread_loop_start_only(_, _, _, _)
list_thread_loop_start_only(thread_loads, earliest, t, cur) ==
    IF t > Len(thread_loads) THEN cur
    ELSE LET start_on_t == Max(thread_loads[t], earliest)
             nxt == IF start_on_t < cur.start_time
                    THEN [thread |-> t, start_time |-> start_on_t,
                          idle |-> start_on_t - thread_loads[t]]
                    ELSE cur
         IN  list_thread_loop_start_only(thread_loads, earliest, t + 1, nxt)

RECURSIVE list_thread_loop(_, _, _, _)
list_thread_loop(thread_loads, earliest, t, cur) ==
    IF t > Len(thread_loads) THEN cur
    ELSE LET start_on_t == Max(thread_loads[t], earliest)
             idle_on_t == start_on_t - thread_loads[t]
             better == \/ start_on_t < cur.start_time
                       \/ (start_on_t = cur.start_time /\ idle_on_t < cur.idle)
             nxt == IF better
                    THEN [thread |-> t, start_time |-> start_on_t, idle |-> idle_on_t]
                    ELSE cur
         IN  list_thread_loop(thread_loads, earliest, t + 1, nxt)

\* one iteration of the while loop: schedule the operation on top of the queue
list_place(s, thread_loads, op_idx) ==
    LET earliest == earliest_start(s, op_idx)
        first == [thread |-> 1,
                  start_time |-> Max(thread_loads[1], earliest),
                  idle |-> Max(thread_loads[1], earliest) - thread_loads[1]]
        best == list_thread_loop(thread_loads, earliest, 2, first)
    IN  [s |-> [s EXCEPT ![op_idx].thread = best.thread - 1,
                         ![op_idx].start_time = best.start_time,
                         ![op_idx].is_scheduled = TRUE],
         thread_loads |-> [thread_loads EXCEPT
                              ![best.thread] = best.start_time + s[op_idx].fma]]

RECURSIVE list_loop(_, _, _, _)
list_loop(s, thread_loads, ord, n) ==
    IF n > Len(s) THEN s
    ELSE LET r == list_place(s, thread_loads, ord[n])
         IN  list_loop(r.s, r.thread_loads, ord, n + 1)

\* reset_schedule that keeps the is_scheduled flags of a previous schedule: a
\* faulty variant that the round trip must reject
reset_schedule_none(s) == s

\* the sequence with its previous schedule reset
reset_schedule(s) == [x \in 1..Len(s) |-> [s[x] EXCEPT !.is_scheduled = FALSE]]

\* PriorityListScheduler::schedule_impl for one pop order: the scheduled
\* sequence and the returned makespan
list_schedule_impl(s, usable_threads, ord) ==
    LET res == list_loop(reset_schedule(s), [t \in 1..usable_threads |-> 0], ord, 1)
    IN  [sequence |-> res, value |-> makespan(res), finished |-> TRUE,
         aborted |-> FALSE]

\* ------------------------------------------------------------------------
\* scheduler/branch_and_bound.hpp
\*
\* The state captured by the lambda schedule_op is the record
\*   [working_copy, sequence, thread_loads, makespan, idling_time,
\*    best_makespan, frames, expired, ret]
\* frames counts the frames entered so far; the deadline of the scheduler's
\* timer passes after `fuel` frames (remaining_time() is 0 from then on);
\* ret is the value the frame returns.
\*
\* A search that is observed (observe is TRUE) also records what it did:
\*   returns  for every frame that returned false, the captured variables at
\*            its entry and at its return
\*   nodes    for every pass of the loop over the threads, the captured
\*            variables after the placement, the bound lb computed from
\*            them, best_makespan, the thread and the thread_loads before
\*            the placement
\*   loops    for every loop over the threads that ran to its end, the
\*            thread_loads it ran on and the number of threads it tried
\* ------------------------------------------------------------------------
RECURSIVE schedule_op(_, _, _, _, _)
RECURSIVE op_loop(_, _, _, _, _, _, _)
RECURSIVE thread_loop(_, _, _, _, _, _, _, _, _)

\* the variables the lambda captures and changes while it searches
Captured(st) ==
    [working_copy |-> st.working_copy, thread_loads |-> st.thread_loads,
     makespan |-> st.makespan, idling_time |-> st.idling_time]

\* the return of a frame entered in the state st
frame_return(st, r) ==
    IF st.observe /\ ~r.ret
    THEN [r EXCEPT !.returns = @ \cup {[entry |-> Captured(st), exit |-> Captured(r)]}]
    ELSE r

\* the end of the loop over the threads of op_idx after `tried` threads
loop_end(st, op_idx, tried) ==
    IF st.observe
    THEN [st EXCEPT !.ret = FALSE,
                    !.loops = @ \cup {[thread_loads |-> st.thread_loads,
                                       op_idx |-> op_idx, tried |-> tried]}]
    ELSE [st EXCEPT !.ret = FALSE]

\* a leaf that keeps the makespan it found and not the schedule
take_leaf_value_only(st, lower_bound) ==
    IF st.makespan < st.best_makespan
    THEN [st EXCEPT !.best_makespan = st.makespan,
                    !.ret = (st.makespan <= lower_bound)]
    ELSE [st EXCEPT !.ret = FALSE]

\* a leaf that ends the search whatever its makespan
take_leaf_first(st, lower_bound) ==
    IF st.makespan < st.best_makespan
    THEN [st EXCEPT
            !.best_makespan = st.makespan,
            !.sequence = [x \in 1..Len(st.sequence) |->
                            [st.sequence[x] EXCEPT
                               !.thread = st.working_copy[x].thread,
                               !.start_time = st.working_copy[x].start_time,
                               !.is_scheduled = TRUE]],
            !.ret = TRUE]
    ELSE [st EXCEPT !.ret = TRUE]

\* the leaf of the search: everything is scheduled
take_leaf(st, lower_bound) ==
    IF st.makespan < st.best_makespan
    THEN [st EXCEPT
            !.best_makespan = st.makespan,
            !.sequence = [x \in 1..Len(st.sequence) |->
                            [st.sequence[x] EXCEPT
                               !.thread = st.working_copy[x].thread,
                               !.start_time = st.working_copy[x].start_time,
                               !.is_scheduled = TRUE]],
            !.ret = (st.makespan <= lower_bound)]
    ELSE [st EXCEPT !.ret = FALSE]

\* node_bound that does not divide the work by the number of threads: a
\* faulty variant that the validity of the bound must reject
node_bound_undivided(idling_time, seq_ms, P, working_copy) ==
    Max(idling_time + seq_ms, critical_path(working_copy))

\* the lower bound lb of a node: the work and the idling spread over the
\* threads, or the critical path of the working copy
node_bound(idling_time, seq_ms, P, working_copy) ==
    Max((idling_time + seq_ms) \div P, critical_path(working_copy))

\* equivalent_empty that lets every empty thread be tried: a faulty variant
\* that the rule of the one empty thread must reject
equivalent_empty_never(thread_loads, t, tried_empty_processor) == FALSE

\* the thread t is empty like one tried before: the loop over the threads
\* ends
equivalent_empty(thread_loads, t, tried_empty_processor) ==
    thread_loads[t] = 0 /\ tried_empty_processor

\* the loop over the threads for the operation op_idx (t is 1-based)
thread_loop(st, P, seq_ms, lower_bound, fuel, op_idx, t, tried_empty_processor, start) ==
    IF t > P THEN loop_end(st, op_idx, t - 1)
    ELSE IF equivalent_empty(st.thread_loads, t, tried_empty_processor)
    THEN loop_end(st, op_idx, t - 1)
    ELSE
      LET tried == tried_empty_processor \/ st.thread_loads[t] = 0
          old_start_time == st.working_copy[op_idx].start_time
          start_time == Max(st.thread_loads[t], start)
          old_thread_load == st.thread_loads[t]
          new_load == start_time + st.sequence[op_idx].fma
          new_idling == st.idling_time + (start_time - old_thread_load)
          new_makespan == Max(st.makespan, new_load)
          wc1 == [st.working_copy EXCEPT ![op_idx].start_time = start_time]
          lb == node_bound(new_idling, seq_ms, P, wc1)
          placed == [st EXCEPT
                       !.working_copy = wc1,
                       !.thread_loads = [st.thread_loads EXCEPT ![t] = new_load],
                       !.idling_time = new_idling,
                       !.makespan = new_makespan]
          seen == IF st.observe
                  THEN [st EXCEPT !.nodes = @ \cup
                           {[at |-> Captured(placed), op_idx |-> op_idx, t |-> t,
                             from |-> st.thread_loads,
                             lb |-> lb, best_makespan |-> st.best_makespan]}]
                  ELSE st
          down == [placed EXCEPT !.working_copy[op_idx].thread = t - 1,
                                 !.nodes = seen.nodes]
          r == schedule_op(down, P, seq_ms, lower_bound, fuel)
          branch == Max(lb, new_makespan) < st.best_makespan
          \* the state after the restore at the end of the loop body
          back == IF branch
                  THEN [r EXCEPT
                          !.thread_loads = st.thread_loads,
                          !.idling_time = st.idling_time,
                          !.makespan = st.makespan,
                          !.working_copy =
                             [r.working_copy EXCEPT ![op_idx].start_time = old_start_time]]
                  ELSE seen
      IN  IF branch /\ r.ret
          THEN r
          ELSE thread_loop(back, P, seq_ms, lower_bound, fuel,
                           op_idx, t + 1, tried, start)

\* op_loop that leaves an operation marked as scheduled after the loop over
\* the threads: a faulty variant that the restoring of the frame must reject
op_loop_marked(st, P, seq_ms, lower_bound, fuel, op_idx, everything_scheduled) ==
    IF op_idx > Len(st.sequence)
    THEN IF everything_scheduled
         THEN take_leaf(st, lower_bound)
         ELSE [st EXCEPT !.ret = FALSE]
    ELSE IF st.working_copy[op_idx].is_scheduled
    THEN op_loop(st, P, seq_ms, lower_bound, fuel, op_idx + 1, everything_scheduled)
    ELSE IF ~is_schedulable(st.working_copy, op_idx)
    THEN op_loop(st, P, seq_ms, lower_bound, fuel, op_idx + 1, FALSE)
    ELSE
      LET marked == [st EXCEPT !.working_copy[op_idx].is_scheduled = TRUE]
          start == earliest_start(marked.working_copy, op_idx)
          r == thread_loop(marked, P, seq_ms, lower_bound, fuel,
                           op_idx, 1, FALSE, start)
      IN  IF r.ret
          THEN r
          ELSE op_loop(r, P, seq_ms, lower_bound, fuel, op_idx + 1, FALSE)

\* the loop over the operations of one frame
op_loop(st, P, seq_ms, lower_bound, fuel, op_idx, everything_scheduled) ==
    IF op_idx > Len(st.sequence)
    THEN IF everything_scheduled
         THEN take_leaf(st, lower_bound)
         ELSE [st EXCEPT !.ret = FALSE]
    ELSE IF st.working_copy[op_idx].is_scheduled
    THEN op_loop(st, P, seq_ms, lower_bound, fuel, op_idx + 1, everything_scheduled)
    ELSE IF ~is_schedulable(st.working_copy, op_idx)
    THEN op_loop(st, P, seq_ms, lower_bound, fuel, op_idx + 1, FALSE)
    ELSE
      LET marked == [st EXCEPT !.working_copy[op_idx].is_scheduled = TRUE]
          start == earliest_start(marked.working_copy, op_idx)
          r == thread_loop(marked, P, seq_ms, lower_bound, fuel,
                           op_idx, 1, FALSE, start)
      IN  IF r.ret
          THEN r
          ELSE op_loop([r EXCEPT !.working_copy[op_idx].is_scheduled = FALSE],
                       P, seq_ms, lower_bound, fuel, op_idx + 1, FALSE)

\* one frame of the lambda schedule_op
schedule_op(st, P, seq_ms, lower_bound, fuel) ==
    IF st.frames >= fuel
    THEN [st EXCEPT !.ret = TRUE, !.expired = TRUE]
    ELSE CHOOSE back \in {frame_return(st, r) : r \in
                 {op_loop([st EXCEPT !.frames = @ + 1], P, seq_ms, lower_bound,
                          fuel, 1, TRUE)}} : TRUE

\* bnb_schedule_impl without the early return on a critical path that
\* reaches the upper bound: a faulty variant that the early exit must reject
bnb_schedule_impl_search(s, usable_threads, upper_bound, fuel) ==
    LET working_copy == reset_schedule(s)
        lower_bound == critical_path(working_copy)
        st0 == [working_copy |-> working_copy,
                sequence |-> s,
                thread_loads |-> [t \in 1..usable_threads |-> 0],
                makespan |-> 0,
                idling_time |-> 0,
                best_makespan |-> upper_bound,
                frames |-> 0,
                expired |-> FALSE,
                ret |-> FALSE,
                observe |-> FALSE, returns |-> {}, nodes |-> {}, loops |-> {}]
        r == schedule_op(st0, usable_threads, sequential_makespan(s), lower_bound, fuel)
    IN  [sequence |-> r.sequence, value |-> r.best_makespan,
         finished |-> ~r.expired, aborted |-> FALSE, frames |-> r.frames]

\* BranchAndBoundScheduler::schedule_impl: the caller's sequence afterwards,
\* the returned value, whether the search finished before the deadline,
\* whether an assertion ended the program and the number of frames of the
\* lambda that got past the test of remaining_time()
bnb_schedule_impl(s, usable_threads, upper_bound, fuel) ==
    LET working_copy == reset_schedule(s)
        lower_bound == critical_path(working_copy)
        st0 == [working_copy |-> working_copy,
                sequence |-> s,
                thread_loads |-> [t \in 1..usable_threads |-> 0],
                makespan |-> 0,
                idling_time |-> 0,
                best_makespan |-> upper_bound,
                frames |-> 0,
                expired |-> FALSE,
                ret |-> FALSE,
                observe |-> FALSE, returns |-> {}, nodes |-> {}, loops |-> {}]
        r == schedule_op(st0, usable_threads, sequential_makespan(s), lower_bound, fuel)
    IN  IF lower_bound >= upper_bound
        THEN [sequence |-> s, value |-> lower_bound, finished |-> TRUE,
              aborted |-> FALSE, frames |-> 0]
        ELSE [sequence |-> r.sequence, value |-> r.best_makespan,
              finished |-> ~r.expired, aborted |-> FALSE, frames |-> r.frames]

\* the search of BranchAndBoundScheduler::schedule_impl observed: the state
\* of the lambda after the first frame has returned
bnb_observed(s, usable_threads, upper_bound, fuel) ==
    LET working_copy == reset_schedule(s)
        lower_bound == critical_path(working_copy)
        st0 == [working_copy |-> working_copy,
                sequence |-> s,
                thread_loads |-> [t \in 1..usable_threads |-> 0],
                makespan |-> 0,
                idling_time |-> 0,
                best_makespan |-> upper_bound,
                frames |-> 0,
                expired |-> FALSE,
                ret |-> FALSE,
                observe |-> TRUE, returns |-> {}, nodes |-> {}, loops |-> {}]
    IN  IF lower_bound >= upper_bound
        THEN st0
        ELSE schedule_op(st0, usable_threads, sequential_makespan(s), lower_bound, fuel)

\* ------------------------------------------------------------------------
\* deviceSequence.hpp
\*
\* A DeviceSequence is modelled by the operations ops[0 .. length - 1]; what
\* the scheduler does to the array behind them is kept in its own record.
\* ------------------------------------------------------------------------
RECURSIVE device_earliest_start_from(_, _, _)
device_earliest_start_from(seq, op, n) ==
    IF n = 0 THEN 0
    ELSE LET end == IF Less(op, seq[n])
                    THEN seq[n].start_time + seq[n].fma ELSE 0
         IN  Max(device_earliest_start_from(seq, op, n - 1), end)

\* earliest_start(const DeviceSequence&, op_idx) for op = seq.ops[op_idx]
device_earliest_start(seq, op) == device_earliest_start_from(seq, op, Len(seq))

\* the inner while loop of device_critical_path: the latest end among the
\* operation and the operations that follow it up to the root
RECURSIVE device_climb(_, _, _)
device_climb(seq, current, time) ==
    LET j == parent(seq, current)
    IN  IF j = 0 THEN time
        ELSE device_climb(seq, j, Max(time, seq[j].start_time + seq[j].fma))

RECURSIVE device_critical_path_from(_, _)
device_critical_path_from(seq, n) ==
    IF n = 0 THEN 0
    ELSE Max(device_critical_path_from(seq, n - 1),
             device_climb(seq, n, seq[n].start_time + seq[n].fma))

device_critical_path(seq) == device_critical_path_from(seq, Len(seq))

\* ------------------------------------------------------------------------
\* src/branch_and_bound_gpu_offload.cpp
\*
\* The locals of nonrecursive_schedule_op are the record
\*   [working_copy, thread_loads, makespan, idling_time, stack_array,
\*    revert_depth, revert_op_idx, revert_thread_idx, skip_changes,
\*    op_idx, thread_idx, depth, best_sequence, best_makespan, iter_guard,
\*    ops_at_length, in_loop]
\* op_idx, thread_idx and the indices kept in the layers are 0-based as in
\* the source; stack_pointer is Len(stack_array); ops_at_length is
\* working_copy.ops[working_copy.length], the first of the default-initialised
\* operations behind the sequence (op_idx never gets past it while the loop
\* runs); in_loop is FALSE once the while loop is left.  The stack and the
\* thread loads stay within the 20 entries of their arrays for the sequences
\* and thread counts explored.
\* ------------------------------------------------------------------------
\* the bound of `while (++iter_guard < 10000)`
ITER_GUARD == 10000

Layer(op_idx, next_op_idx, thread_idx, depth, start_time_op, idletime, mk, loads) ==
    [op_idx |-> op_idx, next_op_idx |-> next_op_idx, thread_idx |-> thread_idx,
     depth |-> depth, start_time_op |-> start_time_op, idletime |-> idletime,
     makespan |-> mk, thread_loads_full_array |-> loads]

\* nonrecursive_schedule_op in front of its while loop
device_entry(best_makespan, working_copy, usable_threads) ==
    LET thread_loads == [t \in 1..usable_threads |-> 0]
        depth == Cardinality({x \in 1..Len(working_copy) :
                                 working_copy[x].is_scheduled})
    IN  [working_copy |-> working_copy,
         thread_loads |-> thread_loads,
         makespan |-> 0,
         idling_time |-> 0,
         stack_array |-> <<Layer(0, 0, 0, depth, 0, 0, 0, thread_loads)>>,
         revert_depth |-> FALSE,
         revert_op_idx |-> FALSE,
         revert_thread_idx |-> FALSE,
         skip_changes |-> FALSE,
         op_idx |-> 0,
         thread_idx |-> 0,
         depth |-> depth,
         best_sequence |-> working_copy,
         best_makespan |-> best_makespan,
         iter_guard |-> 0,
         ops_at_length |-> NoOp,
         in_loop |-> TRUE]

\* working_copy.ops[op_idx]
OpAt(g, op_idx) ==
    IF op_idx < Len(g.working_copy) THEN g.working_copy[op_idx + 1]
    ELSE g.ops_at_length

\* the locals after `is_scheduled = false; start_time = 0` on
\* working_copy.ops[op_idx]
device_unschedule(g, op_idx) ==
    IF op_idx < Len(g.working_copy)
    THEN [g EXCEPT !.working_copy[op_idx + 1].is_scheduled = FALSE,
                   !.working_copy[op_idx + 1].start_time = 0]
    ELSE [g EXCEPT !.ops_at_length.is_scheduled = FALSE,
                   !.ops_at_length.start_time = 0]

\* "Find next schedulable op": the operation is scheduled or not schedulable
device_find_next(g) ==
    LET n == Len(g.working_copy)
        past_end == g.op_idx + 1 >= n
    IN  [g EXCEPT !.op_idx = @ + 1,
                  !.stack_array[Len(g.stack_array)].next_op_idx = g.op_idx + 1,
                  !.revert_op_idx = @ \/ past_end,
                  !.skip_changes = past_end]

\* `skip_changes = false` and the test of thread_idx
device_select(g, usable_threads) ==
    IF g.thread_idx >= usable_threads
    THEN [g EXCEPT !.revert_thread_idx = TRUE, !.skip_changes = TRUE]
    ELSE [g EXCEPT !.skip_changes = FALSE]

\* "Schedule operation"
device_schedule(g) ==
    IF g.skip_changes THEN g
    ELSE LET t == g.thread_idx + 1
             in_sequence == g.op_idx < Len(g.working_copy)
             op == OpAt(g, g.op_idx)
             fma == op.fma
             start == Max(g.thread_loads[t],
                          device_earliest_start(g.working_copy, op))
             scheduled == [op EXCEPT !.is_scheduled = TRUE,
                                     !.thread = g.thread_idx,
                                     !.start_time = start]
         IN  [g EXCEPT
                !.working_copy =
                   IF in_sequence THEN [@ EXCEPT ![g.op_idx + 1] = scheduled] ELSE @,
                !.ops_at_length = IF in_sequence THEN @ ELSE scheduled,
                !.idling_time = @ + (start - g.thread_loads[t]),
                !.thread_loads[t] = start + fma,
                !.makespan = Max(@, start + fma)]

\* "Leaf"
device_leaf(g) ==
    IF g.depth + 1 = Len(g.working_copy)
    THEN IF g.makespan < g.best_makespan
         THEN [g EXCEPT !.best_makespan = g.makespan,
                        !.best_sequence = g.working_copy,
                        !.revert_thread_idx = TRUE]
         ELSE [g EXCEPT !.revert_thread_idx = TRUE]
    ELSE g

\* "Bound & descend": the test of the section ...
device_bounds(g) == ~g.skip_changes /\ g.depth + 1 < Len(g.working_copy)

\* ... and the test of the lower bound
device_descends(g, usable_threads, seq_makespan) ==
    LET lb == Max((g.idling_time + seq_makespan) \div usable_threads,
                  device_critical_path(g.working_copy))
    IN  device_bounds(g) /\ Max(lb, g.makespan) < g.best_makespan

\* the push of a layer and the `continue`
device_descend(g) ==
    [g EXCEPT
       !.stack_array = Append(@,
           Layer(g.op_idx, 0, g.thread_idx, g.depth,
                 OpAt(g, g.op_idx).start_time,
                 g.idling_time, g.makespan, g.thread_loads)),
       !.depth = @ + 1,
       !.op_idx = 0,
       !.thread_idx = 0]

\* "Revert thread"
device_revert_thread(g, usable_threads) ==
    IF g.revert_thread_idx
    THEN LET prev == Last(g.stack_array)
             kept == IF g.op_idx < Len(g.working_copy)
                     THEN device_unschedule(g, g.op_idx) ELSE g
         IN  [kept EXCEPT
                !.revert_thread_idx = FALSE,
                !.makespan = prev.makespan,
                !.idling_time = prev.idletime,
                !.thread_loads = prev.thread_loads_full_array,
                !.thread_idx = @ + 1,
                !.revert_op_idx = @ \/ (g.thread_idx + 1 >= usable_threads)]
    ELSE g

\* "Revert op"
device_revert_op(g) ==
    IF g.revert_op_idx
    THEN LET next_op_idx == Last(g.stack_array).next_op_idx + 1
         IN  [g EXCEPT
                !.revert_op_idx = FALSE,
                !.stack_array[Len(g.stack_array)].next_op_idx = next_op_idx,
                !.op_idx = next_op_idx,
                !.thread_idx = 0,
                !.revert_depth = @ \/ (next_op_idx >= Len(g.working_copy))]
    ELSE g

\* "Revert depth"
device_revert_depth(g) ==
    IF g.revert_depth
    THEN IF g.depth = 0
         THEN [g EXCEPT !.revert_depth = FALSE, !.in_loop = FALSE]
         ELSE LET old == Last(g.stack_array)
              IN  [device_unschedule(g, old.op_idx) EXCEPT
                     !.revert_depth = FALSE,
                     !.depth = @ - 1,
                     !.stack_array = Front(@),
                     !.makespan = old.makespan,
                     !.idling_time = old.idletime,
                     !.thread_loads = old.thread_loads_full_array,
                     !.op_idx = old.op_idx,
                     !.thread_idx = old.thread_idx + 1]
    ELSE g

\* the pass of the loop body that follows schedules ops[length]: its
\* earliest_start compares an operation of Action::NONE, which the
\* assertions of operator< reject
device_asserts(g, usable_threads) ==
    /\ g.iter_guard + 1 < ITER_GUARD
    /\ g.op_idx >= Len(g.working_copy)
    /\ g.depth > 0
    /\ g.thread_idx < usable_threads

\* one test and one pass of the body of the while loop
nonrecursive_iteration(g0, usable_threads, seq_makespan) ==
    LET g == [g0 EXCEPT !.iter_guard = @ + 1]
        n == Len(g.working_copy)
    IN  IF g.iter_guard >= ITER_GUARD
        THEN [g EXCEPT !.in_loop = FALSE]
        ELSE IF g.op_idx >= n /\ g.depth = 0
        THEN [g EXCEPT !.in_loop = FALSE]
        ELSE IF /\ g.op_idx < n
                /\ \/ g.working_copy[g.op_idx + 1].is_scheduled
                   \/ ~is_schedulable(g.working_copy, g.op_idx + 1)
        THEN device_find_next(g)
        ELSE LET placed == device_leaf(device_schedule(device_select(g, usable_threads)))
             IN  IF device_descends(placed, usable_threads, seq_makespan)
                 THEN device_descend(placed)
                 ELSE device_revert_depth(device_revert_op(device_revert_thread(
                         [placed EXCEPT !.revert_thread_idx = @ \/ device_bounds(placed)],
                         usable_threads)))

\* at most n passes of the while loop; the loop stops early where it is
\* left and, in a build with assertions, where an assertion fails
RECURSIVE device_run(_, _, _, _, _)
device_run(g, usable_threads, seq_makespan, ndebug, n) ==
    IF \/ n = 0
       \/ ~g.in_loop
       \/ ~ndebug /\ device_asserts(g, usable_threads)
    THEN g
    ELSE IF n = 1
    THEN nonrecursive_iteration(g, usable_threads, seq_makespan)
    ELSE device_run(device_run(g, usable_threads, seq_makespan, ndebug, n \div 2),
                    usable_threads, seq_makespan, ndebug, n - (n \div 2))

\* BranchAndBoundSchedulerGPU::schedule_impl after the target region ran on
\* the device: the caller's sequence and the returned value
gpu_return(sequence, g) ==
    [sequence |-> [x \in 1..Len(sequence) |->
                     [sequence[x] EXCEPT !.thread = g.best_sequence[x].thread,
                                         !.start_time = g.best_sequence[x].start_time,
                                         !.is_scheduled = TRUE]],
     value |-> g.best_makespan,
     finished |-> TRUE,
     aborted |-> FALSE]

\* BranchAndBoundSchedulerGPU::schedule_impl as a whole; notrangpu tells
\* whether the target region ran on a device, aborted whether an assertion
\* ended the program
gpu_schedule_impl(s, usable_threads, upper_bound, ndebug, notrangpu) ==
    LET working_copy == reset_schedule(s)
        lower_bound == critical_path(working_copy)
        g == device_run(device_entry(upper_bound, working_copy, usable_threads),
                        usable_threads, sequential_makespan(s), ndebug, ITER_GUARD)
    IN  IF lower_bound >= upper_bound
        THEN [sequence |-> s, value |-> lower_bound, finished |-> TRUE,
              aborted |-> FALSE]
        ELSE IF ~notrangpu
        THEN [sequence |-> s, value |-> 0, finished |-> TRUE, aborted |-> FALSE]
        ELSE IF g.in_loop
        THEN [sequence |-> s, value |-> 0, finished |-> TRUE, aborted |-> TRUE]
        ELSE gpu_return(s, g)

\* ------------------------------------------------------------------------
\* optimizer/branch_and_bound.hpp: BranchAndBoundOptimizer as a state machine
\*
\* The thread of the `omp single` region runs solve() and the recursion of
\* add_accumulation (Phase A) on the explicit stack gen_stack.  Every Phase A
\* leaf spawns a task that runs add_elimination (Phase B) on private copies;
\* every Phase B leaf spawns a task that schedules the complete sequence and
\* installs it under `omp critical`.  A team of one thread either runs every
\* task where it is spawned (undeferred) or queues the tasks and runs them
\* in the order of their creation at the barrier; in a larger team the tasks
\* are deferred, any free thread picks up any of them and the steps of the
\* tasks in progress interleave freely.
\* ------------------------------------------------------------------------
VARIABLES
    m_chain,              \* the chain handed to init(): [len, dims, edges]
    m_matrix_free,        \* property matrix_free
    m_available_memory,   \* property available_memory
    m_usable_threads,     \* property usable_threads
    m_upper_bound,        \* set_upper_bound
    m_scheduler,          \* "list" or "bnb": the scheduler handed to init()
    omp_threads,          \* the number of threads of the parallel region
    omp_deferred,         \* the runtime defers the tasks
    m_makespan,           \* best makespan found so far (M*)
    m_optimal_sequence,   \* the sequence that realises it
    m_timer_expired,
    m_pruned_branches,    \* prune counter per sequence length
    deadline_passed,      \* remaining_time() of the optimiser's timer is 0
    solve_pc,             \* "loop", "acc", "barrier", "returned", "aborted"
    accs,                 \* the counter of the while loop of solve()
    gen_sequence,         \* sequence, chain and eliminations of the loop body
    gen_chain,
    gen_eliminations,
    gen_stack,            \* frames [accs, j] of add_accumulation
    btasks,               \* Phase B tasks (add_elimination on private copies)
    ltasks,               \* leaf tasks (scheduling of a complete sequence)
    omp_tickets,          \* tasks queued so far by a team of one thread
    min_returned,         \* history: the least value a scheduler call returned
    leaf_sequences,       \* history: the complete sequences handed to a leaf task
    NDEBUG,               \* the build: TRUE when assert() is compiled out
    omp_target_device,    \* TRUE when target regions run on a device
    call,                 \* a call of schedule_impl on its own: arguments and result
    device                \* the locals of nonrecursive_schedule_op during such a call

config == <<m_chain, m_matrix_free, m_available_memory, m_usable_threads,
            m_upper_bound, m_scheduler, omp_threads, omp_deferred, NDEBUG,
            omp_target_device>>

best == <<m_makespan, m_optimal_sequence>>

stats == <<m_timer_expired, m_pruned_branches>>

generator == <<solve_pc, accs, gen_sequence, gen_chain, gen_eliminations, gen_stack>>

history == <<min_returned, leaf_sequences>>

tasks == <<btasks, ltasks, omp_tickets>>

sched == <<call, device>>

vars == <<config, best, stats, deadline_passed, generator, tasks, history, sched>>

\* longest_possible_sequence that counts one operation per factor: a faulty
\* variant that the bound on the length of the sequences must reject
longest_possible_sequence_factors(chain) == chain.len

\* JacobianChain::longest_possible_sequence (sizes m_pruned_branches)
longest_possible_sequence(chain) == 2 * chain.len - 1

\* the chains of the bounded model: the dimensions and the DAG sizes of the
\* factors cycle through 1..MaxDim and 1..MaxEdges from the offset d
ChainOf(n, d) ==
    [len |-> n,
     dims |-> [x \in 0..n |-> 1 + ((x + d) % MaxDim)],
     edges |-> [x \in 0..(n - 1) |-> 1 + ((x + d) % MaxEdges)]]

Chains == {ChainOf(n, d) : n \in 1..MaxLen, d \in 0..(MaxDim - 1)}

\* the chains of the scenarios S1 and S2: one 3x3 factor whose accumulation
\* costs 9; the factors 5x4 and 4x3 whose tangent accumulations cost 60 each
S1Chain ==
    [len |-> 1, dims |-> [x \in 0..1 |-> 3], edges |-> [x \in 0..0 |-> 3]]

S2Chain ==
    [len |-> 2, dims |-> [x \in 0..2 |-> 3 + x],
     edges |-> [x \in 0..1 |-> IF x = 0 THEN 20 ELSE 15]]

\* the number of Phase A leaves: every non-empty set of factors when
\* matrix_free, the one set of all factors otherwise
PhaseATasks(chain, mf) == IF mf THEN 2 ^ chain.len - 1 ELSE 1

\* BranchAndBoundOptimizer::init: what it leaves behind apart from the
\* arguments and the properties
InitSearch ==
    /\ m_optimal_sequence = make_max
    /\ m_makespan = makespan(make_max)
    /\ m_timer_expired = FALSE
    /\ m_pruned_branches = [d \in 0..longest_possible_sequence(m_chain) |-> 0]
    /\ deadline_passed = FALSE
    /\ solve_pc = "loop"
    /\ accs = IF m_matrix_free THEN 0 ELSE m_chain.len - 1
    /\ gen_sequence = <<>>
    /\ gen_chain = InitialChainState
    /\ gen_eliminations = <<>>
    /\ gen_stack = <<>>
    /\ btasks = {}
    /\ ltasks = {}
    /\ omp_tickets = 0
    /\ min_returned = SIZE_MAX
    /\ leaf_sequences = {}

\* the builds and machines that differ: with and without assert(), with and
\* without a device for the target region.  The assertions of the host code
\* are no part of the model, so both matter where the explicit-stack
\* scheduler runs.
Builds(scheduler) == IF scheduler = "gpu" THEN BOOLEAN ELSE {TRUE}

\* no call of schedule_impl on its own
NoCall == [pc |-> "none"]

NoDevice == [in_loop |-> FALSE]

\* BranchAndBoundOptimizer::init, then set_upper_bound and the properties.
\* A team of several threads is explored on the chains whose search has at
\* most MaxTasks Phase B tasks; every thread added to the team shortens the
\* chains by one factor.  The explicit-stack scheduler is explored with a
\* team of one thread that runs every task where it is spawned.
InitOf(chains, upper_bounds) ==
    /\ m_chain \in chains
    /\ m_matrix_free \in BOOLEAN
    /\ m_available_memory \in 0..(MaxEdges - 1)
    /\ m_usable_threads \in 1..MaxThreads
    /\ m_upper_bound \in upper_bounds
    /\ m_scheduler \in {"list", "bnb", "gpu"}
    /\ omp_threads \in 1..MaxWorkers
    /\ omp_deferred \in BOOLEAN
    /\ omp_threads > 1 =>
          /\ omp_deferred
          /\ m_chain.len + omp_threads <= MaxLen + 1
          /\ PhaseATasks(m_chain, m_matrix_free) <= MaxTasks
    /\ m_scheduler = "gpu" => (omp_threads = 1 /\ omp_deferred = FALSE)
    /\ NDEBUG \in Builds(m_scheduler)
    /\ omp_target_device \in Builds(m_scheduler)
    /\ InitSearch
    /\ call = NoCall
    /\ device = NoDevice

\* the search on the generated chains, set_upper_bound not called
Init == InitOf(Chains, {SIZE_MAX})

\* What is left of the search once remaining_time() is 0: add_elimination
\* returns at the first test of every frame it enters and a leaf task that has
\* not read remaining_time() yet does nothing, so the Phase B tasks, the leaf
\* tasks not yet started, the rest of Phase A and the tasks it would spawn
\* end without another effect on the shared state.  They are taken together
\* with the passing of the deadline; solve() is left in front of the barrier
\* with the leaf tasks in progress.
StopGenerator ==
    /\ solve_pc' = "barrier"
    /\ accs' = m_chain.len + 1
    /\ gen_sequence' = <<>>
    /\ gen_eliminations' = <<>>
    /\ gen_chain' = InitialChainState
    /\ gen_stack' = <<>>

InProgress(leafs) == {l \in leafs : l.pc # "start"}

\* the clock passes the deadline of the optimiser's timer
TimeUp ==
    /\ solve_pc \notin {"returned", "aborted"}
    /\ ~deadline_passed
    /\ deadline_passed' = TRUE
    /\ StopGenerator
    /\ btasks' = {}
    /\ ltasks' = InProgress(ltasks)
    /\ UNCHANGED <<config, sched, best, stats, omp_tickets, history>>

\* the tasks in progress
RunningTasks ==
    Cardinality({b \in btasks : b.running}) +
    Cardinality({l \in ltasks : l.pc # "start"})

\* the runtime executes a task at the place where it is spawned
Undeferred == ~omp_deferred

\* a thread of the team is free to pick up a deferred task (the thread of
\* the `omp single` region joins the others at the barrier)
FreeThread ==
    RunningTasks < omp_threads - (IF solve_pc = "barrier" THEN 0 ELSE 1)

\* the ticket of a task spawned now: a team of one thread queues its tasks
Ticket == IF omp_deferred /\ omp_threads = 1 THEN omp_tickets + 1 ELSE 0

\* a team of one thread runs the oldest task of its queue
IsNext(task) ==
    omp_threads = 1 =>
       /\ \A b \in btasks : task.ticket <= b.ticket
       /\ \A l \in ltasks : task.ticket <= l.ticket

\* the thread of the `omp single` region waits for an undeferred task
GeneratorMayStep == Undeferred => (btasks = {} /\ ltasks = {})

\* a Phase B task steps once a thread has picked it up; it waits for an
\* undeferred leaf task
BMayStep(b) ==
    IF Undeferred THEN ltasks = {} ELSE (b.running \/ FreeThread) /\ IsNext(b)

\* a leaf task is picked up
LMayStart(l) == Undeferred \/ (FreeThread /\ IsNext(l))

\* the arguments a frame of add_accumulation or add_elimination was called
\* with (sequence, chain and eliminations are passed by reference), kept in
\* the frame to compare them with their values when the frame returns
AtCall(sequence, chain, eliminations) ==
    [sequence |-> sequence, chain |-> chain, eliminations |-> eliminations]

\* solve(): one test of the while loop `while (++accs <= m_length)`
SolveLoop ==
    /\ solve_pc = "loop"
    /\ GeneratorMayStep
    /\ accs' = accs + 1
    /\ IF accs + 1 <= m_chain.len
       THEN /\ gen_sequence' = <<>>
            /\ gen_eliminations' = <<>>
            /\ gen_chain' = InitialChainState
            /\ gen_stack' = <<[accs |-> accs + 1, j |-> 0,
                               at_call |-> AtCall(<<>>, InitialChainState, <<>>)]>>
            /\ solve_pc' = "acc"
       ELSE /\ solve_pc' = "barrier"
            /\ UNCHANGED <<gen_sequence, gen_eliminations, gen_chain, gen_stack>>
    /\ UNCHANGED <<config, sched, best, stats, deadline_passed, tasks, history>>

\* AccReturn without the call of revert: a faulty variant that the
\* apply/revert property must reject
AccReturn_norevert ==
    IF Len(gen_stack) = 1
    THEN /\ gen_stack' = <<>>
         /\ solve_pc' = "loop"
         /\ UNCHANGED <<gen_sequence, gen_eliminations, gen_chain>>
    ELSE /\ gen_stack' = Front(Front(gen_stack)) \o
                             <<[gen_stack[Len(gen_stack) - 1] EXCEPT !.j = @ + 1]>>
         /\ gen_sequence' = Front(gen_sequence)
         /\ gen_eliminations' = Front(gen_eliminations)
         /\ gen_chain' = gen_chain
         /\ solve_pc' = "acc"

\* the return of a frame of add_accumulation: the caller pops the operation,
\* drops its candidate row, reverts the chain and moves on to the next j
AccReturn ==
    IF Len(gen_stack) = 1
    THEN /\ gen_stack' = <<>>
         /\ solve_pc' = "loop"
         /\ UNCHANGED <<gen_sequence, gen_eliminations, gen_chain>>
    ELSE /\ gen_stack' = Front(Front(gen_stack)) \o
                             <<[gen_stack[Len(gen_stack) - 1] EXCEPT !.j = @ + 1]>>
         /\ gen_sequence' = Front(gen_sequence)
         /\ gen_eliminations' = Front(gen_eliminations)
         /\ gen_chain' = Revert(gen_chain, Last(gen_sequence))
         /\ solve_pc' = "acc"

\* the task spawned at a Phase A leaf
NewBTask(sequence, chain, eliminations, ticket) ==
    [sequence |-> sequence, chain |-> chain, eliminations |-> eliminations,
     ticket |-> ticket,
     stack |-> <<[elim_idx |-> 1, pair_idx |-> 1,
                  at_call |-> AtCall(sequence, chain, eliminations)]>>,
     running |-> FALSE]

\* add_accumulation: one step of the top frame
AddAccumulation ==
    /\ solve_pc = "acc"
    /\ GeneratorMayStep
    /\ LET top == Last(gen_stack)
           op == cheapest_accumulation(m_chain, m_available_memory, top.j)
       IN  IF top.accs = 0
           THEN /\ btasks' = btasks \cup
                       {NewBTask(gen_sequence, gen_chain, gen_eliminations, Ticket)}
                /\ omp_tickets' = Ticket
                /\ AccReturn
           ELSE IF top.j >= m_chain.len
           THEN /\ AccReturn
                /\ UNCHANGED <<btasks, omp_tickets>>
           ELSE IF ~CanApply(m_chain, m_matrix_free, m_available_memory, gen_chain, op)
           THEN /\ gen_stack' = [gen_stack EXCEPT ![Len(gen_stack)].j = @ + 1]
                /\ UNCHANGED <<solve_pc, gen_sequence, gen_eliminations, gen_chain,
                               btasks, omp_tickets>>
           ELSE /\ gen_chain' = Apply(gen_chain, op)
                /\ gen_eliminations' = Append(gen_eliminations,
                       push_possible_eliminations(m_chain, m_matrix_free,
                           m_available_memory, Apply(gen_chain, op), op.j, op.i))
                /\ gen_sequence' = Append(gen_sequence, op)
                /\ gen_stack' = Append(gen_stack,
                       [accs |-> top.accs - 1, j |-> top.j + 1,
                        at_call |-> AtCall(gen_sequence', gen_chain', gen_eliminations')])
                /\ UNCHANGED <<solve_pc, btasks, omp_tickets>>
    /\ UNCHANGED <<config, sched, best, stats, deadline_passed, accs, ltasks, history>>

\* NextPair that leaves out pair_idx = 1 (the second option of a row): a
\* faulty variant that the completeness property must reject
NextPair_first(frame) == [frame EXCEPT !.elim_idx = @ + 1, !.pair_idx = 1]

\* the loop position after the body for (elim_idx, pair_idx) is done
NextPair(frame) ==
    IF frame.pair_idx = 1
    THEN [frame EXCEPT !.pair_idx = 2]
    ELSE [frame EXCEPT !.elim_idx = @ + 1, !.pair_idx = 1]

\* Descend with the operation put in front of the sequence instead of
\* behind it: a faulty variant that the precedence property must reject
Descend_front(chain, mf, mem, b, op) ==
    LET applied == Apply(b.chain, op)
        row == push_possible_eliminations(chain, mf, mem, applied, op.j, op.i)
        pushed == <<op>> \o b.sequence
    IN  [b EXCEPT
           !.chain = applied,
           !.eliminations = Append(@, row),
           !.sequence = pushed,
           !.stack = Append(@, [elim_idx |-> Last(b.stack).elim_idx + 1,
                                pair_idx |-> 1,
                                at_call |-> AtCall(pushed, applied,
                                                   Append(b.eliminations, row))])]

\* Descend that pushes the operation twice: a faulty variant that the
\* absence of duplicates must reject
Descend_twice(chain, mf, mem, b, op) ==
    LET applied == Apply(b.chain, op)
        row == push_possible_eliminations(chain, mf, mem, applied, op.j, op.i)
        pushed == Append(Append(b.sequence, op), op)
    IN  [b EXCEPT
           !.chain = applied,
           !.eliminations = Append(@, row),
           !.sequence = pushed,
           !.stack = Append(@, [elim_idx |-> Last(b.stack).elim_idx + 1,
                                pair_idx |-> 1,
                                at_call |-> AtCall(pushed, applied,
                                                   Append(b.eliminations, row))])]

\* add_elimination, the body of the loops for a candidate that applies:
\* apply, push_possible_eliminations, push_back and the recursive call with
\* elim_idx + 1
Descend(chain, mf, mem, b, op) ==
    LET applied == Apply(b.chain, op)
        row == push_possible_eliminations(chain, mf, mem, applied, op.j, op.i)
        pushed == Append(b.sequence, op)
    IN  [b EXCEPT
           !.chain = applied,
           !.eliminations = Append(@, row),
           !.sequence = pushed,
           !.stack = Append(@, [elim_idx |-> Last(b.stack).elim_idx + 1,
                                pair_idx |-> 1,
                                at_call |-> AtCall(pushed, applied,
                                                   Append(b.eliminations, row))])]

\* NextNode that calls revert for a candidate whose apply failed: a faulty
\* variant that the failed-apply property must reject
RECURSIVE NextNode_revert_skipped(_, _, _, _)
NextNode_revert_skipped(chain, mf, mem, b) ==
    LET top == Last(b.stack)
    IN  IF top.elim_idx > Len(b.eliminations)
        THEN IF Len(b.stack) = 1
             THEN {}
             ELSE NextNode_revert_skipped(chain, mf, mem,
                     [b EXCEPT
                        !.stack = Front(Front(b.stack)) \o
                                     <<NextPair(b.stack[Len(b.stack) - 1])>>,
                        !.sequence = Front(b.sequence),
                        !.eliminations = Front(b.eliminations),
                        !.chain = Revert(b.chain, Last(b.sequence))])
        ELSE LET op == b.eliminations[top.elim_idx][top.pair_idx]
             IN  IF op = NoOp
                 THEN NextNode_revert_skipped(chain, mf, mem,
                         [b EXCEPT !.stack[Len(b.stack)] = NextPair(top)])
                 ELSE IF ~CanApply(chain, mf, mem, b.chain, op)
                 THEN NextNode_revert_skipped(chain, mf, mem,
                         [b EXCEPT !.stack[Len(b.stack)] = NextPair(top),
                                   !.chain = Revert(b.chain, op)])
                 ELSE {Descend(chain, mf, mem, b, op)}

\* add_elimination between two frame entries: the loops over elim_idx and
\* pair_idx of the top frame run on to the next candidate that applies and
\* the task descends (apply, push_possible_eliminations, push_back, recursive
\* call); a frame whose loops are exhausted returns and its caller pops the
\* operation, drops the candidate row, reverts the chain and goes on with
\* the next pair.  The result is the set holding the task in front of its
\* next frame entry; it is empty when the first frame has returned.
RECURSIVE NextNode(_, _, _, _)
NextNode(chain, mf, mem, b) ==
    LET top == Last(b.stack)
    IN  IF top.elim_idx > Len(b.eliminations)
        THEN IF Len(b.stack) = 1
             THEN {}
             ELSE UNION {NextNode(chain, mf, mem, caller) : caller \in
                     {[b EXCEPT
                        !.stack = Front(Front(b.stack)) \o
                                     <<NextPair(b.stack[Len(b.stack) - 1])>>,
                        !.sequence = Front(b.sequence),
                        !.eliminations = Front(b.eliminations),
                        !.chain = Revert(b.chain, Last(b.sequence))]}}
        ELSE LET op == b.eliminations[top.elim_idx][top.pair_idx]
             IN  IF op = NoOp \/ ~CanApply(chain, mf, mem, b.chain, op)
                 THEN UNION {NextNode(chain, mf, mem, skipped) : skipped \in
                         {[b EXCEPT !.stack[Len(b.stack)] = NextPair(top)]}}
                 ELSE {Descend(chain, mf, mem, b, op)}

\* the return of the top frame at its entry: the loops of the frame are
\* skipped
BReturn(chain, mf, mem, b) ==
    UNION {NextNode(chain, mf, mem, done) : done \in
        {[b EXCEPT !.stack[Len(b.stack)].elim_idx = Len(b.eliminations) + 1]}}

\* the task spawned at a Phase B leaf
NewLTask(sequence, ticket) ==
    [deviceSequence |-> sequence, ticket |-> ticket, pc |-> "start", upper_bound |-> 0,
     new_makespan |-> 0, finished |-> TRUE, expired_read |-> FALSE]

\* AddElimination that also prunes a node whose critical path equals the
\* upper bound: a faulty variant that the pruning rule must reject
AddElimination_strict ==
    /\ ~deadline_passed
    /\ \E b0 \in btasks :
          /\ BMayStep(b0)
          /\ LET b == [b0 EXCEPT !.running = TRUE]
                 returned == BReturn(m_chain, m_matrix_free, m_available_memory, b)
                 lower_bound == critical_path(b.sequence)
             IN  IF IsAccumulated(b.chain, m_chain.len - 1, 0)
                 THEN /\ btasks' = (btasks \ {b0}) \cup returned
                      /\ ltasks' = ltasks \cup {NewLTask(b.sequence, Ticket)}
                      /\ omp_tickets' = Ticket
                      /\ leaf_sequences' = leaf_sequences \cup {b.sequence}
                      /\ UNCHANGED m_pruned_branches
                 ELSE IF lower_bound >= m_makespan \/ lower_bound >= m_upper_bound
                 THEN /\ btasks' = (btasks \ {b0}) \cup returned
                      /\ m_pruned_branches' =
                            [m_pruned_branches EXCEPT ![Len(b.sequence)] = @ + 1]
                      /\ UNCHANGED <<ltasks, omp_tickets, leaf_sequences>>
                 ELSE /\ btasks' = (btasks \ {b0}) \cup
                            NextNode(m_chain, m_matrix_free, m_available_memory, b)
                      /\ UNCHANGED <<ltasks, omp_tickets, m_pruned_branches,
                                     leaf_sequences>>
    /\ UNCHANGED <<config, sched, best, m_timer_expired, deadline_passed,
                   generator, min_returned>>

\* AddElimination that does not compare the critical path with the upper
\* bound: a faulty variant that the bound on the prefixes must reject
AddElimination_unbounded ==
    /\ ~deadline_passed
    /\ \E b0 \in btasks :
          /\ BMayStep(b0)
          /\ LET b == [b0 EXCEPT !.running = TRUE]
                 returned == BReturn(m_chain, m_matrix_free, m_available_memory, b)
                 lower_bound == critical_path(b.sequence)
             IN  IF IsAccumulated(b.chain, m_chain.len - 1, 0)
                 THEN /\ btasks' = (btasks \ {b0}) \cup returned
                      /\ ltasks' = ltasks \cup {NewLTask(b.sequence, Ticket)}
                      /\ omp_tickets' = Ticket
                      /\ leaf_sequences' = leaf_sequences \cup {b.sequence}
                      /\ UNCHANGED m_pruned_branches
                 ELSE IF lower_bound >= m_makespan
                 THEN /\ btasks' = (btasks \ {b0}) \cup returned
                      /\ m_pruned_branches' =
                            [m_pruned_branches EXCEPT ![Len(b.sequence)] = @ + 1]
                      /\ UNCHANGED <<ltasks, omp_tickets, leaf_sequences>>
                 ELSE /\ btasks' = (btasks \ {b0}) \cup
                            NextNode(m_chain, m_matrix_free, m_available_memory, b)
                      /\ UNCHANGED <<ltasks, omp_tickets, m_pruned_branches,
                                     leaf_sequences>>
    /\ UNCHANGED <<config, sched, best, m_timer_expired, deadline_passed,
                   generator, min_returned>>

\* add_elimination: the entry of a frame after its time check (leaf test,
\* pruning) and the way to the next frame entry of the task
AddElimination ==
    /\ ~deadline_passed
    /\ \E b0 \in btasks :
          /\ BMayStep(b0)
          /\ LET b == [b0 EXCEPT !.running = TRUE]
                 returned == BReturn(m_chain, m_matrix_free, m_available_memory, b)
                 lower_bound == critical_path(b.sequence)
             IN  IF IsAccumulated(b.chain, m_chain.len - 1, 0)
                 THEN /\ btasks' = (btasks \ {b0}) \cup returned
                      /\ ltasks' = ltasks \cup {NewLTask(b.sequence, Ticket)}
                      /\ omp_tickets' = Ticket
                      /\ leaf_sequences' = leaf_sequences \cup {b.sequence}
                      /\ UNCHANGED m_pruned_branches
                 ELSE IF lower_bound >= m_makespan \/ lower_bound > m_upper_bound
                 THEN /\ btasks' = (btasks \ {b0}) \cup returned
                      /\ m_pruned_branches' =
                            [m_pruned_branches EXCEPT ![Len(b.sequence)] = @ + 1]
                      /\ UNCHANGED <<ltasks, omp_tickets, leaf_sequences>>
                 ELSE /\ btasks' = (btasks \ {b0}) \cup
                            NextNode(m_chain, m_matrix_free, m_available_memory, b)
                      /\ UNCHANGED <<ltasks, omp_tickets, m_pruned_branches,
                                     leaf_sequences>>
    /\ UNCHANGED <<config, sched, best, m_timer_expired, deadline_passed,
                   generator, min_returned>>

\* the number of frames after which the deadline of a scheduler run passes;
\* SIZE_MAX: it does not pass during the run
Fuels == 0..MaxFuel \cup {SIZE_MAX}

\* Scheduler::schedule of the scheduler handed to init(): the outcomes of one
\* call (the pop order among equal priorities and the time of the deadline
\* are not determined by the arguments)
ScheduleOutcomes(kind, s, threads, upper_bound) ==
    LET usable_threads == usable_threads_of(s, threads)
    IN  IF kind = "list"
        THEN {list_schedule_impl(s, usable_threads, ord) : ord \in PopOrders(s)}
        ELSE IF kind = "bnb"
        THEN {bnb_schedule_impl(s, usable_threads, upper_bound, fuel) : fuel \in Fuels}
        ELSE {gpu_schedule_impl(s, usable_threads, upper_bound, NDEBUG,
                                omp_target_device)}

\* leaf task: remaining_time() is not 0; set_timer and the call of the
\* scheduler with the value of m_makespan read at the call.  The scheduler's
\* budget is the time the optimiser has left, so a run that does not finish
\* in time ends after the optimiser's deadline.
LeafSchedule ==
    /\ ~deadline_passed
    /\ \E l \in ltasks :
          /\ l.pc = "start"
          /\ LMayStart(l)
          /\ \E r \in ScheduleOutcomes(m_scheduler, l.deviceSequence,
                                        m_usable_threads, m_makespan) :
                LET scheduled == [l EXCEPT !.deviceSequence = r.sequence,
                                           !.upper_bound = m_makespan,
                                           !.new_makespan = r.value,
                                           !.finished = r.finished,
                                           !.pc = "read_expired"]
                IN  /\ ~r.aborted
                    /\ min_returned' = Min(min_returned, r.value)
                    /\ deadline_passed' = ~r.finished
                    /\ IF r.finished
                       THEN /\ ltasks' = (ltasks \ {l}) \cup {scheduled}
                            /\ UNCHANGED <<generator, btasks>>
                       ELSE /\ ltasks' = InProgress(ltasks) \cup {scheduled}
                            /\ btasks' = {}
                            /\ StopGenerator
    /\ UNCHANGED <<config, sched, best, stats, omp_tickets, leaf_sequences>>

\* leaf task: an assertion fails in the call of the scheduler and ends the
\* program with all its tasks
LeafAbort ==
    /\ ~deadline_passed
    /\ \E l \in ltasks :
          /\ l.pc = "start"
          /\ LMayStart(l)
          /\ \E r \in ScheduleOutcomes(m_scheduler, l.deviceSequence,
                                        m_usable_threads, m_makespan) : r.aborted
    /\ solve_pc' = "aborted"
    /\ ltasks' = {}
    /\ btasks' = {}
    /\ UNCHANGED <<config, sched, best, stats, deadline_passed, accs, gen_sequence,
                   gen_chain, gen_eliminations, gen_stack, omp_tickets, history>>

\* leaf task: `m_timer_expired |= !scheduler->finished_in_time()` reads ...
LeafReadExpired ==
    /\ \E l \in ltasks :
          /\ l.pc = "read_expired"
          /\ ltasks' = (ltasks \ {l}) \cup
                {[l EXCEPT !.expired_read = m_timer_expired, !.pc = "write_expired"]}
    /\ UNCHANGED <<config, sched, best, stats, deadline_passed, generator, btasks, omp_tickets, history>>

\* ... and writes the flag
LeafWriteExpired ==
    /\ \E l \in ltasks :
          /\ l.pc = "write_expired"
          /\ m_timer_expired' = (l.expired_read \/ ~l.finished)
          /\ ltasks' = (ltasks \ {l}) \cup {[l EXCEPT !.pc = "critical"]}
    /\ UNCHANGED <<config, sched, best, m_pruned_branches, deadline_passed, generator,
                   btasks, omp_tickets, history>>

\* some task is inside the `omp critical` block
InCritical == \E l \in ltasks : l.pc = "installing"

\* LeafEnterCritical without the test `m_makespan > new_makespan`: a faulty
\* variant that the monotonicity of m_makespan must reject
LeafEnterCritical_unchecked ==
    /\ ~InCritical
    /\ \E l \in ltasks :
          /\ l.pc = "critical"
          /\ m_optimal_sequence' = l.deviceSequence
          /\ ltasks' = (ltasks \ {l}) \cup {[l EXCEPT !.pc = "installing"]}
    /\ UNCHANGED <<config, sched, m_makespan, stats, deadline_passed,
                   generator, btasks, omp_tickets, history>>

\* leaf task: enters the critical block, tests `m_makespan > new_makespan`
\* and copies the sequence
LeafEnterCritical ==
    /\ ~InCritical
    /\ \E l \in ltasks :
          /\ l.pc = "critical"
          /\ IF m_makespan > l.new_makespan
             THEN /\ m_optimal_sequence' = l.deviceSequence
                  /\ ltasks' = (ltasks \ {l}) \cup {[l EXCEPT !.pc = "installing"]}
             ELSE /\ ltasks' = ltasks \ {l}
                  /\ UNCHANGED m_optimal_sequence
    /\ UNCHANGED <<config, sched, m_makespan, stats, deadline_passed,
                   generator, btasks, omp_tickets, history>>

\* leaf task: the rest of the critical block
LeafInstall ==
    /\ \E l \in ltasks :
          /\ l.pc = "installing"
          /\ m_makespan' = l.new_makespan
          /\ ltasks' = ltasks \ {l}
    /\ UNCHANGED <<config, sched, m_optimal_sequence, stats, deadline_passed, generator,
                   btasks, omp_tickets, history>>

\* the barrier at the end of the parallel region: solve() returns
SolveReturn ==
    /\ solve_pc = "barrier"
    /\ btasks = {}
    /\ ltasks = {}
    /\ solve_pc' = "returned"
    /\ UNCHANGED <<config, sched, best, stats, deadline_passed, accs, gen_sequence,
                   gen_chain, gen_eliminations, gen_stack, tasks, history>>

Next ==
    \/ TimeUp
    \/ SolveLoop
    \/ AddAccumulation
    \/ AddElimination
    \/ LeafSchedule
    \/ LeafAbort
    \/ LeafReadExpired
    \/ LeafWriteExpired
    \/ LeafEnterCritical
    \/ LeafInstall
    \/ SolveReturn

Spec == Init /\ [][Next]_vars

\* The search run by a team of one thread (the tasks run one after the other,
\* the longest chains are explored), with m_usable_threads at its largest
InitSerial ==
    /\ Init
    /\ omp_threads = 1
    /\ m_usable_threads = MaxThreads

SpecSerial == InitSerial /\ [][Next]_vars

\* ------------------------------------------------------------------------
\* The search past its deadline, step by step: the tasks and Phase A are
\* not taken together with the passing of the deadline but run on, each
\* frame and each leaf task reading remaining_time() when it is entered
\* ------------------------------------------------------------------------
InitDeadline ==
    /\ Init
    /\ m_scheduler = "bnb"
    /\ m_available_memory = 0
    /\ m_usable_threads = MaxThreads

\* the clock passes the deadline of the optimiser's timer
DeadlinePasses ==
    /\ solve_pc \notin {"returned", "aborted"}
    /\ ~deadline_passed
    /\ deadline_passed' = TRUE
    /\ UNCHANGED <<config, sched, best, stats, generator, tasks, history>>

\* AddEliminationExpired that goes on as if there were time left: a faulty
\* variant that the deadline property must reject
AddEliminationExpired_unchecked ==
    /\ deadline_passed
    /\ \E b0 \in btasks :
          /\ BMayStep(b0)
          /\ LET b == [b0 EXCEPT !.running = TRUE]
                 returned == BReturn(m_chain, m_matrix_free, m_available_memory, b)
             IN  IF IsAccumulated(b.chain, m_chain.len - 1, 0)
                 THEN /\ btasks' = (btasks \ {b0}) \cup returned
                      /\ ltasks' = ltasks \cup {NewLTask(b.sequence, Ticket)}
                      /\ omp_tickets' = Ticket
                      /\ leaf_sequences' = leaf_sequences \cup {b.sequence}
                 ELSE /\ btasks' = (btasks \ {b0}) \cup
                            NextNode(m_chain, m_matrix_free, m_available_memory, b)
                      /\ UNCHANGED <<ltasks, omp_tickets, leaf_sequences>>
    /\ UNCHANGED <<config, sched, best, stats, deadline_passed, generator,
                   min_returned>>

\* add_elimination entered after the deadline: the frame returns at its
\* first test; its caller, if it has one, pops the operation, reverts the
\* chain and goes on with its loops up to the next call
AddEliminationExpired ==
    /\ deadline_passed
    /\ \E b0 \in btasks :
          /\ BMayStep(b0)
          /\ btasks' = (btasks \ {b0}) \cup
                 BReturn(m_chain, m_matrix_free, m_available_memory,
                         [b0 EXCEPT !.running = TRUE])
    /\ UNCHANGED <<config, sched, best, stats, deadline_passed, generator,
                   ltasks, omp_tickets, history>>

\* leaf task picked up after the deadline: remaining_time() is 0 and the
\* task ends without a call of the scheduler
LeafExpired ==
    /\ deadline_passed
    /\ \E l \in ltasks :
          /\ l.pc = "start"
          /\ LMayStart(l)
          /\ ltasks' = ltasks \ {l}
    /\ UNCHANGED <<config, sched, best, stats, deadline_passed, generator,
                   btasks, omp_tickets, history>>

\* leaf task: set_timer and the call of the scheduler; a run that does not
\* finish in time ends after the optimiser's deadline
LeafScheduleStep ==
    /\ ~deadline_passed
    /\ \E l \in ltasks :
          /\ l.pc = "start"
          /\ LMayStart(l)
          /\ \E r \in ScheduleOutcomes(m_scheduler, l.deviceSequence,
                                        m_usable_threads, m_makespan) :
                /\ ~r.aborted
                /\ min_returned' = Min(min_returned, r.value)
                /\ deadline_passed' = ~r.finished
                /\ ltasks' = (ltasks \ {l}) \cup
                       {[l EXCEPT !.deviceSequence = r.sequence,
                                  !.upper_bound = m_makespan,
                                  !.new_makespan = r.value,
                                  !.finished = r.finished,
                                  !.pc = "read_expired"]}
    /\ UNCHANGED <<config, sched, best, stats, generator, btasks, omp_tickets,
                   leaf_sequences>>

NextDeadline ==
    \/ DeadlinePasses
    \/ SolveLoop
    \/ AddAccumulation
    \/ AddElimination
    \/ AddEliminationExpired
    \/ LeafScheduleStep
    \/ LeafExpired
    \/ LeafReadExpired
    \/ LeafWriteExpired
    \/ LeafEnterCritical
    \/ LeafInstall
    \/ SolveReturn

\* the steps left once the deadline has passed
Unwinding == deadline_passed /\ NextDeadline

\* every thread of the team keeps running: a task that was picked up runs to
\* its end and the threads waiting at the barrier pick up the tasks left
SpecDeadline == InitDeadline /\ [][NextDeadline]_vars /\ WF_vars(Unwinding)

\* ------------------------------------------------------------------------
\* The schedulers on their own: one call of schedule_impl on a complete
\* sequence of the optimiser
\* ------------------------------------------------------------------------
\* the task add_accumulation spawns after it has accumulated the factors of
\* A that lie below j
RECURSIVE accumulate(_, _, _, _, _)
accumulate(chain, mf, mem, A, j) ==
    IF j = 0 THEN NewBTask(<<>>, InitialChainState, <<>>, 0)
    ELSE LET b == accumulate(chain, mf, mem, A, j - 1)
             op == cheapest_accumulation(chain, mem, j - 1)
             applied == Apply(b.chain, op)
         IN  IF (j - 1) \in A
             THEN [b EXCEPT
                     !.chain = applied,
                     !.eliminations = Append(@,
                         push_possible_eliminations(chain, mf, mem, applied, op.j, op.i)),
                     !.sequence = Append(@, op)]
             ELSE b

\* the complete sequences add_elimination reaches from the task b when no
\* branch is pruned
RECURSIVE complete_from(_, _, _, _, _)
complete_from(chain, mf, mem, b, elim_idx) ==
    IF IsAccumulated(b.chain, chain.len - 1, 0) THEN {b.sequence}
    ELSE UNION {LET op == b.eliminations[e][p]
                IN  IF op = NoOp \/ ~CanApply(chain, mf, mem, b.chain, op)
                    THEN {}
                    ELSE complete_from(chain, mf, mem,
                                       Descend(chain, mf, mem, b, op), e + 1)
                : e \in elim_idx..Len(b.eliminations), p \in 1..2}

\* the sets of factors Phase A accumulates
AccumulationSets(chain, mf) ==
    {A \in SUBSET (0..(chain.len - 1)) :
        Cardinality(A) >= (IF mf THEN 1 ELSE chain.len)}

CompleteSequences(chain, mf, mem) ==
    UNION {complete_from(chain, mf, mem, accumulate(chain, mf, mem, A, chain.len), 1) :
              A \in AccumulationSets(chain, mf)}

\* the sequences a scheduler is called on: the complete sequences of at most
\* MaxOps operations
Inputs(chain, mf, mem) == {s \in CompleteSequences(chain, mf, mem) : Len(s) <= MaxOps}

\* the sequence as the caller holds it at the call: fresh from the optimiser
\* or with the schedule of an earlier call (of the list scheduler on one
\* thread)
Entries(s) == {s} \cup {list_schedule_impl(s, 1, ord).sequence : ord \in PopOrders(s)}

\* the upper bounds of a call: none, or a value just below, at or just above
\* the critical path of the sequence
UpperBounds(s) ==
    {SIZE_MAX} \cup
    {u \in {critical_path(reset_schedule(s)) + d - 1 : d \in 0..(MaxSlack + 1)} : u >= 0}

\* the schedulers are called on the sequences the optimiser reaches without a
\* memory limit
InitSched ==
    /\ m_chain \in Chains
    /\ m_matrix_free \in BOOLEAN
    /\ m_available_memory = 0
    /\ m_usable_threads \in 1..MaxThreads
    /\ m_upper_bound \in {SIZE_MAX}
    /\ m_scheduler \in {"list", "bnb", "gpu"}
    /\ omp_threads = 1
    /\ omp_deferred = FALSE
    /\ NDEBUG \in Builds(m_scheduler)
    /\ omp_target_device \in Builds(m_scheduler)
    /\ InitSearch
    /\ \E s \in Inputs(m_chain, m_matrix_free, m_available_memory) :
          \E input \in Entries(s) :
             \E upper_bound \in UpperBounds(input) :
                call = [pc |-> "entry", input |-> input, sequence |-> input,
                        upper_bound |-> upper_bound, value |-> 0, finished |-> TRUE,
                        again |-> FALSE, first_finished |-> TRUE]
    /\ device = NoDevice

\* the return of schedule_impl with the result r
Returned(r) ==
    call' = [call EXCEPT !.pc = "returned", !.sequence = r.sequence,
                         !.value = r.value, !.finished = r.finished]

\* PriorityListScheduler::schedule_impl(sequence, m_usable_threads, upper_bound)
\* when the while loop finds a thread_loads[0] to read
ListCall ==
    /\ call.pc = "entry"
    /\ m_scheduler = "list"
    /\ m_usable_threads > 0 \/ Len(call.sequence) = 0
    /\ \E ord \in PopOrders(call.sequence) :
          Returned(list_schedule_impl(call.sequence, m_usable_threads, ord))
    /\ UNCHANGED <<config, best, stats, deadline_passed, generator, tasks, history,
                   device>>

\* BranchAndBoundScheduler::schedule_impl(sequence, m_usable_threads, upper_bound)
BnbCall ==
    /\ call.pc = "entry"
    /\ m_scheduler = "bnb"
    /\ \E fuel \in Fuels :
          Returned(bnb_schedule_impl(call.sequence, m_usable_threads,
                                     call.upper_bound, fuel))
    /\ UNCHANGED <<config, best, stats, deadline_passed, generator, tasks, history,
                   device>>

\* the caller hands the sequence that BranchAndBoundScheduler has just
\* scheduled to the scheduler once more, with an upper bound one above the
\* makespan of that schedule
BnbAgain ==
    /\ call.pc = "returned"
    /\ m_scheduler = "bnb"
    /\ ~call.again
    /\ \A x \in 1..Len(call.input) :
          call.input[x].start_time = 0 /\ ~call.input[x].is_scheduled
    /\ call.value < call.upper_bound
    /\ call' = [pc |-> "entry", input |-> call.sequence, sequence |-> call.sequence,
                upper_bound |-> makespan(call.sequence) + 1, value |-> 0,
                finished |-> TRUE, again |-> TRUE,
                first_finished |-> call.finished]
    /\ UNCHANGED <<config, best, stats, deadline_passed, generator, tasks, history,
                   device>>

\* BranchAndBoundSchedulerGPU::schedule_impl up to the target region: the
\* region runs on the device, or on the host when there is no device to
\* offload to
GpuCall ==
    /\ call.pc = "entry"
    /\ m_scheduler = "gpu"
    /\ LET working_copy == reset_schedule(call.sequence)
           lower_bound == critical_path(working_copy)
       IN  IF lower_bound >= call.upper_bound
           THEN /\ Returned([sequence |-> call.sequence, value |-> lower_bound,
                             finished |-> TRUE])
                /\ UNCHANGED device
           ELSE LET notrangpu == omp_target_device
                IN  IF notrangpu
                    THEN /\ device' = device_entry(call.upper_bound, working_copy,
                                                   m_usable_threads)
                         /\ call' = [call EXCEPT !.pc = "device"]
                    ELSE /\ Returned([sequence |-> call.sequence, value |-> 0,
                                      finished |-> TRUE])
                         /\ UNCHANGED device
    /\ UNCHANGED <<config, best, stats, deadline_passed, generator, tasks, history>>

\* nonrecursive_schedule_op: one iteration of the while loop
GpuIterate ==
    /\ call.pc = "device"
    /\ device.in_loop
    /\ NDEBUG \/ ~device_asserts(device, m_usable_threads)
    /\ device' = nonrecursive_iteration(device, m_usable_threads,
                                        sequential_makespan(call.sequence))
    /\ UNCHANGED <<config, best, stats, deadline_passed, generator, tasks, history,
                   call>>

\* nonrecursive_schedule_op: an assertion of operator< fails and ends the
\* program
GpuAbort ==
    /\ call.pc = "device"
    /\ device.in_loop
    /\ ~NDEBUG
    /\ device_asserts(device, m_usable_threads)
    /\ call' = [call EXCEPT !.pc = "aborted"]
    /\ UNCHANGED <<config, best, stats, deadline_passed, generator, tasks, history,
                   device>>

\* the end of the target region and the return of schedule_impl
GpuReturn ==
    /\ call.pc = "device"
    /\ ~device.in_loop
    /\ Returned(gpu_return(call.sequence, device))
    /\ UNCHANGED <<config, best, stats, deadline_passed, generator, tasks, history,
                   device>>

NextSched ==
    \/ ListCall
    \/ BnbCall
    \/ BnbAgain
    \/ GpuCall
    \/ GpuIterate
    \/ GpuAbort
    \/ GpuReturn

SpecSched == InitSched /\ [][NextSched]_vars

\* ------------------------------------------------------------------------
\* The comparison operators on their own: a pair of operations with
\* i <= k <= j is compared with operator> and operator<
\* ------------------------------------------------------------------------
Operations ==
    {Operation(a[1], a[2], j, k, i, 1) :
        a \in {<<"ACC", "TAN">>, <<"ACC", "ADJ">>, <<"MUL", "NONE">>,
               <<"ELI", "TAN">>, <<"ELI", "ADJ">>},
        j \in 0..(MaxLen - 1), k \in 0..(MaxLen - 1), i \in 0..(MaxLen - 1)}

InitCompare ==
    /\ m_chain = ChainOf(1, 0)
    /\ m_matrix_free = FALSE
    /\ m_available_memory = 0
    /\ m_usable_threads = 1
    /\ m_upper_bound = SIZE_MAX
    /\ m_scheduler = "list"
    /\ omp_threads = 1
    /\ omp_deferred = FALSE
    /\ NDEBUG = TRUE
    /\ omp_target_device = TRUE
    /\ InitSearch
    /\ \E a, b \in {op \in Operations : op.i <= op.k /\ op.k <= op.j} :
          call = [pc |-> "operands", a |-> a, b |-> b]
    /\ device = NoDevice

\* a > b and b < a are evaluated
Compare ==
    /\ call.pc = "operands"
    /\ call' = [pc |-> "compared", a |-> call.a, b |-> call.b,
                greater |-> Greater(call.a, call.b),
                less |-> Less(call.b, call.a)]
    /\ UNCHANGED <<config, best, stats, deadline_passed, generator, tasks, history,
                   device>>

NextCompare == Compare

SpecCompare == InitCompare /\ [][NextCompare]_vars

\* ------------------------------------------------------------------------
\* The schedulers called without a processor: schedule_impl with
\* usable_threads = 0, on the complete sequences of the optimiser and on the
\* empty sequence (for which Scheduler::schedule itself arrives at 0)
\* ------------------------------------------------------------------------
InitZero ==
    /\ m_chain \in Chains
    /\ m_matrix_free \in BOOLEAN
    /\ m_available_memory = 0
    /\ m_usable_threads = 0
    /\ m_upper_bound \in {SIZE_MAX}
    /\ m_scheduler \in {"list", "bnb"}
    /\ omp_threads = 1
    /\ omp_deferred = FALSE
    /\ NDEBUG \in Builds(m_scheduler)
    /\ omp_target_device \in Builds(m_scheduler)
    /\ InitSearch
    /\ \E input \in Inputs(m_chain, m_matrix_free, m_available_memory) \cup {<<>>} :
          \E upper_bound \in UpperBounds(input) :
             call = [pc |-> "entry", input |-> input, sequence |-> input,
                     upper_bound |-> upper_bound, value |-> 0, finished |-> TRUE,
                     again |-> FALSE, first_finished |-> TRUE]
    /\ device = NoDevice

\* what a read of an element of an empty std::vector may come to
UndefinedValues(s) == {0, 1, sequential_makespan(s), SIZE_MAX}

\* PriorityListScheduler::schedule_impl with usable_threads = 0 on a sequence
\* with operations: thread_loads is empty and the first pass of the while
\* loop reads and writes thread_loads[0].  The behaviour is undefined: the
\* call ends the program or returns some makespan.
ListUndefined ==
    /\ call.pc = "entry"
    /\ m_scheduler = "list"
    /\ m_usable_threads = 0
    /\ Len(call.sequence) > 0
    /\ \/ call' = [call EXCEPT !.pc = "aborted"]
       \/ \E v \in UndefinedValues(call.sequence) :
             call' = [call EXCEPT !.pc = "returned", !.value = v]
    /\ UNCHANGED <<config, best, stats, deadline_passed, generator, tasks, history,
                   device>>

NextZero ==
    \/ ListCall
    \/ ListUndefined
    \/ BnbCall

SpecZero == InitZero /\ [][NextZero]_vars

\* ------------------------------------------------------------------------
\* Properties of the schedulers (checked under SpecSched)
\* ------------------------------------------------------------------------
\* every operation starts after its producers have ended, and the operations
\* of one thread do not overlap
ScheduleRespected(S) ==
    /\ \A u, v \in 1..Len(S) :
          Less(S[u], S[v]) => S[u].start_time >= S[v].start_time + S[v].fma
    /\ \A u, v \in 1..Len(S) :
          (u # v /\ S[u].thread = S[v].thread) =>
             \/ S[u].start_time + S[u].fma <= S[v].start_time
             \/ S[v].start_time + S[v].fma <= S[u].start_time

\* C1: after the recursive branch-and-bound scheduler has returned a value
\* below its upper bound, or the priority list scheduler has returned, every
\* operation starts no earlier than the end of each of its producers, and two
\* operations on the same thread occupy disjoint intervals.
C1_ScheduleRespect ==
    ( /\ call.pc = "returned"
      /\ \/ m_scheduler = "list"
         \/ m_scheduler = "bnb" /\ call.value < call.upper_bound )
    => ScheduleRespected(call.sequence)

\* a branch-and-bound call that returned below a finite upper bound a
\* schedule with two operations on one thread and a producer on another
C1_Witness ==
    /\ call.pc = "returned"
    /\ m_scheduler = "bnb"
    /\ call.value < call.upper_bound
    /\ call.upper_bound < SIZE_MAX
    /\ \E u, v, w \in 1..Len(call.sequence) :
          /\ u # v
          /\ call.sequence[u].thread = call.sequence[v].thread
          /\ Less(call.sequence[u], call.sequence[w])
          /\ call.sequence[w].thread # call.sequence[u].thread
    /\ ScheduleRespected(call.sequence)

\* the schedule fields of two sequences agree
SameSchedule(S, T) ==
    \A x \in 1..Len(S) :
       /\ S[x].thread = T[x].thread
       /\ S[x].start_time = T[x].start_time
       /\ S[x].is_scheduled = T[x].is_scheduled

\* C3: when the recursive branch-and-bound scheduler returns r below its
\* upper bound, the caller's sequence is fully scheduled and its makespan is
\* r; when it returns r at or above the upper bound, thread, start_time and
\* is_scheduled of every operation are as they were on entry.
C3_OutputContract ==
    (call.pc = "returned" /\ m_scheduler = "bnb") =>
       IF call.value < call.upper_bound
       THEN /\ is_scheduled(call.sequence)
            /\ makespan(call.sequence) = call.value
       ELSE SameSchedule(call.sequence, call.input)

\* the search was entered on a sequence that came with a schedule and
\* returned without getting below the upper bound
C3_Witness ==
    /\ call.pc = "returned"
    /\ m_scheduler = "bnb"
    /\ call.value >= call.upper_bound
    /\ critical_path(reset_schedule(call.input)) < call.upper_bound
    /\ is_scheduled(call.input)
    /\ Len(call.input) >= 3
    /\ SameSchedule(call.sequence, call.input)

\* exhaustive enumeration: the least makespan over all ways to place the
\* unscheduled operations of s, one after the other in an order that places
\* producers first, each on any thread at the earliest time the thread and
\* the producers allow
RECURSIVE optimum_from(_, _)
optimum_from(s, thread_loads) ==
    LET open == {x \in 1..Len(s) : ~s[x].is_scheduled /\ is_schedulable(s, x)}
        value(x, t) ==
           LET start == Max(thread_loads[t], earliest_start(s, x))
           IN  optimum_from([s EXCEPT ![x].is_scheduled = TRUE,
                                      ![x].thread = t - 1,
                                      ![x].start_time = start],
                            [thread_loads EXCEPT ![t] = start + s[x].fma])
        \* threads of equal load are interchangeable: the first of them stands
        \* for all
        threads == {t \in DOMAIN thread_loads :
                      \A u \in DOMAIN thread_loads :
                         u < t => thread_loads[u] # thread_loads[t]}
        values == {value(x, t) : x \in open, t \in threads}
    IN  IF open = {}
        THEN makespan_from(s, Len(s))
        ELSE CHOOSE m \in values : \A o \in values : m <= o

Optimum(s, usable_threads) ==
    optimum_from(reset_schedule(s), [t \in 1..usable_threads |-> 0])

\* C4: on a sequence whose start times are all 0, without an upper bound and
\* without the deadline passing, the recursive branch-and-bound scheduler
\* returns the least makespan of any schedule of the sequence on
\* usable_threads processors that respects the producer relation.
C4_Optimality ==
    ( /\ call.pc = "returned"
      /\ m_scheduler = "bnb"
      /\ \A x \in 1..Len(call.input) : call.input[x].start_time = 0
      /\ call.upper_bound = SIZE_MAX
      /\ call.finished )
    => call.value = Optimum(call.input, m_usable_threads)

\* a finished search that places at least four operations on several
\* processors and gets below the sequential makespan
C4_Witness ==
    /\ call.pc = "returned"
    /\ m_scheduler = "bnb"
    /\ \A x \in 1..Len(call.input) : call.input[x].start_time = 0
    /\ call.upper_bound = SIZE_MAX
    /\ call.finished
    /\ m_usable_threads >= 2
    /\ Len(call.input) >= 4
    /\ call.value = Optimum(call.input, m_usable_threads)
    /\ call.value < sequential_makespan(call.input)
    /\ \E x \in 1..Len(call.sequence) : call.sequence[x].thread # 0

\* the sequence without a schedule: nothing is scheduled and every start
\* time is 0
unscheduled(s) ==
    [x \in 1..Len(s) |-> [s[x] EXCEPT !.is_scheduled = FALSE, !.start_time = 0]]

\* C5: whichever scheduler is called without an upper bound, the makespan it
\* returns lies between the critical path of the unscheduled sequence and the
\* sequential makespan.
C5_ResultBounds ==
    (call.pc = "returned" /\ call.upper_bound = SIZE_MAX) =>
       /\ critical_path(unscheduled(call.input)) <= call.value
       /\ call.value <= sequential_makespan(call.input)

\* ------------------------------------------------------------------------
\* Properties of the sequence optimiser
\* ------------------------------------------------------------------------
\* the nodes of the search that exist in a state: the node of Phase A and
\* the node each Phase B task stands in front of
Nodes ==
    {[sequence |-> gen_sequence, eliminations |-> gen_eliminations]} \cup
    {[sequence |-> b.sequence, eliminations |-> b.eliminations] : b \in btasks}

\* the sequences built so far
BuiltSequences ==
    {nd.sequence : nd \in Nodes} \cup leaf_sequences \cup
    {l.deviceSequence : l \in ltasks}

\* the operations offered in the candidate rows of a node
Offered(nd) ==
    {nd.eliminations[r][c] : r \in 1..Len(nd.eliminations), c \in 1..2} \ {NoOp}

\* C2: in every sequence the optimiser builds, at every node of Phase A and
\* Phase B, every producer of an operation sits at a smaller index than the
\* operation itself.
C2_PrecedenceRespect ==
    \A s \in BuiltSequences :
       \A u, v \in 1..Len(s) : Less(s[u], s[v]) => v < u

\* a complete sequence in which some operation has a producer
C2_Witness ==
    \E s \in leaf_sequences :
       \E u, v \in 1..Len(s) : Less(s[u], s[v]) /\ s[u].action = "ELI"

\* C6: the shared best makespan m_makespan never increases, whatever the
\* interleaving of the Phase B tasks and the leaf tasks.
C6_MonotoneImprovement == [][m_makespan' <= m_makespan]_vars

\* a leaf task arrives at the critical block with a makespan that is no
\* improvement any more while another leaf task is in progress
C6_Witness ==
    \E l1, l2 \in ltasks :
       /\ l1 # l2
       /\ l1.pc = "critical"
       /\ l2.pc # "start"
       /\ m_makespan < SIZE_MAX
       /\ l1.new_makespan > m_makespan

\* C7: whenever no task is inside the critical block, m_optimal_sequence has
\* the makespan m_makespan; when solve() has returned, m_makespan is the
\* least of the sentinel and all values the scheduler calls of the leaf
\* tasks returned, stale reads of m_makespan included.
C7_BestConsistency ==
    /\ ~InCritical => makespan(m_optimal_sequence) = m_makespan
    /\ solve_pc = "returned" => m_makespan = Min(SIZE_MAX, min_returned)

\* the operations of a sequence without their schedule
OpSet(s) == {Operation(s[x].action, s[x].mode, s[x].j, s[x].k, s[x].i, s[x].fma) :
                x \in 1..Len(s)}

\* every way to build the sub-Jacobian (j, i) from the accumulated factors A:
\* the sets of operations of the bracketings in which an accumulated operand
\* is multiplied and a factor that was not accumulated is eliminated
RECURSIVE Ways(_, _, _, _, _, _)
Ways(chain, mf, mem, A, j, i) ==
    IF j = i
    THEN IF j \in A THEN {{cheapest_accumulation(chain, mem, j)}} ELSE {}
    ELSE UNION {
           LET left == Ways(chain, mf, mem, A, j, k + 1)
               right == Ways(chain, mf, mem, A, k, i)
               mul == Operation("MUL", "NONE", j, k, i,
                         JacM(chain, j, k + 1) * JacM(chain, k, i) * JacN(chain, k, i))
               tan == Operation("ELI", "TAN", j, k, i,
                         FmaTangent(chain, j, j, JacN(chain, k, i)))
               adj == Operation("ELI", "ADJ", j, k, i,
                         FmaAdjoint(chain, i, i, JacM(chain, j, k + 1)))
           IN  {l \cup r \cup {mul} : l \in left, r \in right}
               \cup (IF mf /\ j = k + 1 /\ j \notin A
                     THEN {r \cup {tan} : r \in right} ELSE {})
               \cup (IF mf /\ i = k /\ i \notin A /\ MemoryGate(chain, mem, k)
                     THEN {l \cup {adj} : l \in left} ELSE {})
           : k \in i..(j - 1)}

\* no node was pruned and the deadline did not pass
PruningInactive ==
    /\ m_upper_bound = SIZE_MAX
    /\ \A d \in DOMAIN m_pruned_branches : m_pruned_branches[d] = 0
    /\ ~deadline_passed

\* C8: when solve() has returned without pruning and without expiry, then
\* for every set of accumulated factors that Phase A admits and every way to
\* complete the root Jacobian from it, some leaf held a sequence that
\* consists of exactly these operations.
C8_Completeness ==
    (solve_pc = "returned" /\ PruningInactive) =>
       \A A \in AccumulationSets(m_chain, m_matrix_free) :
          \A W \in Ways(m_chain, m_matrix_free, m_available_memory, A,
                        m_chain.len - 1, 0) :
             \E s \in leaf_sequences : OpSet(s) = W

\* solve() has returned from an unpruned matrix-free search of a chain of
\* three factors or more, with more than one leaf per accumulation set
C8_Witness ==
    /\ solve_pc = "returned"
    /\ PruningInactive
    /\ m_matrix_free
    /\ m_chain.len >= 3
    /\ Cardinality(leaf_sequences) > Cardinality(AccumulationSets(m_chain, TRUE))

\* C9: without matrix_free no node offers or holds an ELIMINATION, and every
\* complete sequence is n accumulations followed by n - 1 multiplications.
C9_MatrixFreeOff ==
    ~m_matrix_free =>
       /\ \A s \in BuiltSequences : \A x \in 1..Len(s) : s[x].action # "ELI"
       /\ \A nd \in Nodes : \A op \in Offered(nd) : op.action # "ELI"
       /\ \A s \in leaf_sequences :
             /\ Len(s) = 2 * m_chain.len - 1
             /\ \A x \in 1..Len(s) :
                   s[x].action = (IF x <= m_chain.len THEN "ACC" ELSE "MUL")

\* a complete sequence with multiplications, built without matrix_free
C9_Witness ==
    /\ ~m_matrix_free
    /\ m_chain.len >= 2
    /\ leaf_sequences # {}

\* the sub-Jacobian an adjoint operation needs memory for
AdjointTarget(op) == IF op.action = "ACC" THEN <<op.j, op.j>> ELSE <<op.k, op.i>>

GateRespected(op) ==
    op.mode = "ADJ" =>
       EdgesInDag(m_chain, AdjointTarget(op)[1], AdjointTarget(op)[2])
          <= m_available_memory

\* C10: with available_memory = K > 0 no adjoint operation is chosen by
\* cheapest_accumulation, offered by push_possible_eliminations or held by
\* a built sequence for a sub-Jacobian with more than K edges.
C10_MemoryGate ==
    m_available_memory > 0 =>
       /\ \A j \in 0..(m_chain.len - 1) :
             GateRespected(cheapest_accumulation(m_chain, m_available_memory, j))
       /\ \A nd \in Nodes : \A op \in Offered(nd) : GateRespected(op)
       /\ \A s \in BuiltSequences : \A x \in 1..Len(s) : GateRespected(s[x])

\* a complete sequence with an adjoint operation, built under a memory cap
\* that excludes the adjoint mode for another factor
C10_Witness ==
    /\ m_available_memory > 0
    /\ \E k \in 0..(m_chain.len - 1) : EdgesInDag(m_chain, k, k) > m_available_memory
    /\ \E s \in leaf_sequences : \E x \in 1..Len(s) :
          s[x].mode = "ADJ" /\ s[x].action = "ELI"

\* ------------------------------------------------------------------------
\* Chain state in the search (C11, C12)
\* ------------------------------------------------------------------------
\* every operation over the sub-Jacobians of a chain: the accumulations of
\* the factors and, for i <= k < j, the operations that build (j, i) from
\* (j, k + 1) and (k, i) (costs play no part in the chain state)
AllOperations(chain) ==
    {Operation("ACC", md, j, j, j, 1) : md \in {"TAN", "ADJ"}, j \in 0..(chain.len - 1)} \cup
    UNION {UNION {{Operation(a[1], a[2], j, k, i, 1) :
                      a \in {<<"MUL", "NONE">>, <<"ELI", "TAN">>, <<"ELI", "ADJ">>},
                      i \in 0..k} :
                  k \in 0..(j - 1)} :
           j \in 0..(chain.len - 1)}

WellFormed(op) == op.i <= op.k /\ op.k <= op.j /\ (op.action # "ACC" => op.k < op.j)

\* the chain state after the operations of a sequence were applied in order
RECURSIVE ChainAfter(_)
ChainAfter(s) ==
    IF Len(s) = 0 THEN InitialChainState ELSE Apply(ChainAfter(Front(s)), Last(s))

\* the chain states of the search: the generator's and those of the tasks
ChainNodes ==
    {[sequence |-> gen_sequence, chain |-> gen_chain]} \cup
    {[sequence |-> b.sequence, chain |-> b.chain] : b \in btasks}

FrameChain(b, d) ==
    ChainAfter(SubSeq(b.sequence, 1, Len(b.sequence) - (Len(b.stack) - d)))

Skipped(b) ==
    {b.eliminations[t[2]][t[3]] :
        t \in {t \in (1..(Len(b.stack) - 1)) \X (1..Len(b.eliminations)) \X (1..2) :
                 LET d == t[1]
                     r == t[2]
                     c == t[3]
                     cand == b.eliminations[r][c]
                     at == b.stack[d]
                 IN  /\ cand # NoOp
                     /\ r >= (IF d = 1 THEN 1 ELSE b.stack[d - 1].elim_idx + 1)
                     /\ r < at.elim_idx \/ (r = at.elim_idx /\ c < at.pair_idx)
                     /\ ~CanApply(m_chain, m_matrix_free, m_available_memory,
                                  FrameChain(b, d), cand)}}

\* C12: apply returns false for an accumulation of an accumulated factor,
\* for a multiplication with an operand that is not accumulated or is used,
\* and for an elimination with matrix-free off or behind the memory gate; a
\* failed apply leaves the chain state as it was, and a task that passed
\* over such candidates still holds the chain its sequence builds (revert
\* was not called for them).
C12_FailedApplyUnchanged ==
    /\ \A nd \in ChainNodes :
          \A op \in AllOperations(m_chain) :
             LET C == nd.chain
                 r == apply(m_chain, m_matrix_free, m_available_memory, C, op)
                 fails ==
                    \/ op.action = "ACC" /\ IsAccumulated(C, op.j, op.j)
                    \/ /\ op.action = "MUL"
                       /\ \/ ~IsAccumulated(C, op.j, op.k + 1) \/ IsUsed(C, op.j, op.k + 1)
                          \/ ~IsAccumulated(C, op.k, op.i) \/ IsUsed(C, op.k, op.i)
                    \/ /\ op.action = "ELI"
                       /\ \/ ~m_matrix_free
                          \/ op.mode = "ADJ" /\ ~MemoryGate(m_chain, m_available_memory, op.k)
             IN  WellFormed(op) =>
                    /\ fails => ~r.ok
                    /\ ~r.ok => r.state = C
    /\ \A b \in btasks :
          Skipped(b) # {} => b.chain = ChainAfter(b.sequence)

\* a task passed over a candidate whose operand was already used, so that a
\* revert of the candidate would have cleared a bit of its chain
C12_Witness ==
    \E b \in btasks :
       /\ b.chain = ChainAfter(b.sequence)
       /\ \E op \in Skipped(b) : Revert(b.chain, op) # b.chain

\* ------------------------------------------------------------------------
\* The recursive scheduler called again on its own schedule (C13)
\* ------------------------------------------------------------------------
\* C13: BranchAndBoundScheduler called on a sequence S it has scheduled
\* itself, with the upper bound makespan(S) + 1, returns makespan(S); the
\* deadline passes in neither of the two runs.
C13_RoundTrip ==
    ( /\ call.pc = "returned"
      /\ call.again
      /\ call.first_finished
      /\ call.finished )
    => call.value = makespan(call.input)

\* a second run on a schedule that uses several processors and starts some
\* operation after time 0
C13_Witness ==
    /\ call.pc = "returned"
    /\ call.again
    /\ call.first_finished
    /\ call.finished
    /\ m_usable_threads >= 2
    /\ Len(call.input) >= 3
    /\ \E x \in 1..Len(call.input) : call.input[x].thread # 0
    /\ \E x \in 1..Len(call.input) : call.input[x].start_time > 0
    /\ call.upper_bound = makespan(call.input) + 1
    /\ call.value = makespan(call.input)

\* ------------------------------------------------------------------------
\* The early return of the recursive scheduler (C14)
\* ------------------------------------------------------------------------
\* C14: when the critical path of the working copy (the sequence with its
\* is_scheduled flags reset) is at least the upper bound,
\* BranchAndBoundScheduler::schedule_impl returns this critical path, leaves
\* the caller's sequence as it was and enters no frame of the search (it
\* never reads the deadline, so it ends in time whenever the deadline is).
C14_EarlyExit ==
    ( /\ call.pc = "returned"
      /\ m_scheduler = "bnb"
      /\ critical_path(reset_schedule(call.input)) >= call.upper_bound )
    => /\ call.value = critical_path(reset_schedule(call.input))
       /\ call.sequence = call.input
       /\ call.finished

\* a call whose upper bound lies below the critical path of a sequence with
\* a producer
C14_Witness ==
    /\ call.pc = "returned"
    /\ m_scheduler = "bnb"
    /\ critical_path(reset_schedule(call.input)) > call.upper_bound
    /\ call.upper_bound > 0
    /\ Len(call.input) >= 3
    /\ call.value = critical_path(reset_schedule(call.input))
    /\ call.sequence = call.input

LeafSequences == {l.deviceSequence : l \in ltasks}

\* C16: for every complete sequence Q of the optimiser and every thread
\* count, Scheduler::schedule hands count_accumulations(Q) to schedule_impl
\* when threads is 0 or at least count_accumulations(Q), and threads
\* otherwise; the value handed on is at most count_accumulations(Q) and at
\* least 1.
C16_UsableThreads ==
    \A Q \in LeafSequences :
       \A threads \in {0, m_usable_threads, MaxThreads + 1, Len(Q) + 1} :
          LET P == usable_threads_of(Q, threads)
              accumulations == Cardinality({x \in 1..Len(Q) : Q[x].action = "ACC"})
          IN  /\ P = (IF threads = 0 \/ threads >= accumulations
                      THEN accumulations ELSE threads)
              /\ P <= accumulations
              /\ P >= 1

\* leaves were scheduled with a thread count below the accumulations of one
\* sequence and above those of another
C16_Witness ==
    /\ \E l \in ltasks : l.pc # "start"
    /\ \A Q \in leaf_sequences : usable_threads_of(Q, m_usable_threads) >= 1
    /\ \E Q1, Q2 \in leaf_sequences :
          /\ count_accumulations(Q1) < m_usable_threads
          /\ usable_threads_of(Q1, m_usable_threads) = count_accumulations(Q1)
          /\ count_accumulations(Q2) > m_usable_threads
          /\ usable_threads_of(Q2, m_usable_threads) = m_usable_threads

\* ------------------------------------------------------------------------
\* Past the deadline (C17)
\* ------------------------------------------------------------------------
\* a Phase B task after a step taken past the deadline: the frame it
\* entered applied no operation and spawned nothing; what changed is the
\* work of its caller, which put another candidate in the place of the
\* last operation
ReturnedAtEntry(b, after) ==
    /\ Len(after.stack) <= Len(b.stack)
    /\ Len(after.sequence) <= Len(b.sequence)
    /\ Len(after.sequence) > 0
    /\ Front(after.sequence) = SubSeq(b.sequence, 1, Len(after.sequence) - 1)

\* a step taken once the deadline has passed
ExpiredStep ==
    /\ deadline_passed'
    /\ leaf_sequences' = leaf_sequences
    /\ m_pruned_branches' = m_pruned_branches
    /\ \A l \in ltasks' \ ltasks : l.pc \notin {"start", "read_expired"}
    /\ \A after \in btasks' \ btasks :
          \/ after.sequence = gen_sequence /\ Len(after.stack) = 1
          \/ \E b \in btasks \ btasks' : ReturnedAtEntry(b, after)

\* the run of the inner scheduler a leaf task makes in a step: a run cut by
\* the deadline after `fuel` frames has let no further frame past its entry
\* test
FramesUnwind ==
    \A l \in ltasks \ ltasks' :
       (l.pc = "start" /\ ~deadline_passed) =>
          \A fuel \in 0..MaxFuel :
             LET r == bnb_schedule_impl(l.deviceSequence,
                         usable_threads_of(l.deviceSequence, m_usable_threads),
                         m_makespan, fuel)
             IN  /\ r.frames <= fuel
                 /\ ~r.finished => r.frames = fuel

\* solve() has returned: every task has ended and m_optimal_sequence is the
\* sequence installed last
AllEnded ==
    solve_pc = "returned" =>
       /\ btasks = {}
       /\ ltasks = {}
       /\ makespan(m_optimal_sequence) = m_makespan

\* C17: once the deadline has passed, a frame of add_elimination that is
\* entered returns without applying an operation, pruning or spawning a
\* leaf task, no leaf task starts a call of the scheduler, a run of the
\* inner scheduler lets no frame past its entry test, and solve() comes to
\* its return with all tasks ended and m_optimal_sequence the sequence
\* installed last.
C17_DeadlineBehaviour ==
    /\ AllEnded
    /\ [][/\ deadline_passed => ExpiredStep
          /\ FramesUnwind
          /\ AllEnded']_vars
    /\ (deadline_passed ~> solve_pc = "returned")

\* the deadline has passed while a Phase B task was two frames deep, Phase A
\* was not done and a leaf task was waiting
C17_Witness ==
    /\ deadline_passed
    /\ solve_pc = "acc"
    /\ \E b \in btasks : Len(b.stack) >= 2
    /\ \E l \in ltasks : l.pc = "start"
    /\ m_optimal_sequence # make_max

\* ------------------------------------------------------------------------
\* No duplicate work (C18)
\* ------------------------------------------------------------------------
\* C18: in a complete sequence that reached a leaf of the search no two
\* operations compare equal under operator==, that is, no two have the same
\* pair (i, j).
C18_NoDuplicates ==
    \A Q \in LeafSequences :
       \A u, v \in 1..Len(Q) : u # v => ~Equal(Q[u], Q[v])

\* a leaf with accumulations, a multiplication and an elimination, two of
\* its operations sharing j and two sharing i
C18_Witness ==
    \E Q \in LeafSequences :
       /\ \E u \in 1..Len(Q) : Q[u].action = "MUL"
       /\ \E u \in 1..Len(Q) : Q[u].action = "ELI"
       /\ \E u, v \in 1..Len(Q) : u # v /\ Q[u].j = Q[v].j
       /\ \E u, v \in 1..Len(Q) : u # v /\ Q[u].i = Q[v].i
       /\ \A u, v \in 1..Len(Q) : u # v => ~Equal(Q[u], Q[v])

\* ------------------------------------------------------------------------
\* The producer relation (C19)
\* ------------------------------------------------------------------------
\* C19 as stated: a > b (and b < a) holds exactly when b is no accumulation
\* and (a.i = b.i and a.k = b.j) or (a.j = b.j and a.k + 1 = b.i).
C19_ProducerAsStated ==
    call.pc = "compared" =>
       LET a == call.a
           b == call.b
           producer == /\ b.action # "ACC"
                       /\ \/ (a.i = b.i /\ a.k = b.j)
                          \/ (a.j = b.j /\ a.k + 1 = b.i)
       IN  (call.greater <=> producer) /\ (call.less <=> producer)

\* C19, amended: a > b (and b < a) holds exactly when b is no accumulation
\* and a's result is one of the two operands that b splits at its k: the
\* lower one (a.i = b.i and a.j = b.k) or the upper one (a.j = b.j and
\* a.i = b.k + 1).
C19_ProducerRelation ==
    call.pc = "compared" =>
       LET a == call.a
           b == call.b
           producer == /\ b.action # "ACC"
                       /\ \/ (a.i = b.i /\ a.j = b.k)
                          \/ (a.j = b.j /\ a.i = b.k + 1)
       IN  (call.greater <=> producer) /\ (call.less <=> producer)

\* an accumulation found to be the producer of the upper operand of a
\* multiplication, which the wording with a.k does not cover
C19_Witness ==
    /\ call.pc = "compared"
    /\ call.a.action = "ACC"
    /\ call.b.action = "MUL"
    /\ call.a.j = call.b.j /\ call.a.i = call.b.k + 1
    /\ call.a.k + 1 # call.b.i
    /\ call.greater /\ call.less

\* ------------------------------------------------------------------------
\* The tree of producers (C20)
\* ------------------------------------------------------------------------
\* the sequences in the hands of the generator and of the tasks
CurrentSequences == {nd.sequence : nd \in Nodes} \cup LeafSequences

\* s[u] is a producer for s[v]
Produces(s, u, v) == Greater(s[u], s[v])

Antisymmetric(s) ==
    \A u, v \in 1..Len(s) : ~(Produces(s, u, v) /\ Produces(s, v, u))

Transitive(s) ==
    \A u, v, w \in 1..Len(s) :
       Produces(s, u, v) /\ Produces(s, v, w) => Produces(s, u, w)

\* the relation holds between an operation and the one that consumes its
\* result, never between an operation and a later consumer down the line
DirectOnly(s) ==
    \A u, v, w \in 1..Len(s) :
       Produces(s, u, v) /\ Produces(s, v, w) => ~Produces(s, u, w)

\* every operation has at most one consumer, the one Sequence::parent finds,
\* which stands behind it in the sequence; nothing produces for an
\* accumulation
InTree(s) ==
    /\ \A u \in 1..Len(s) :
          LET p == parent(s, u)
          IN  /\ {v \in 1..Len(s) : Produces(s, u, v)} = (IF p = 0 THEN {} ELSE {p})
              /\ p = 0 \/ p > u
              /\ level(s, u) <= Len(s)
    /\ \A u, v \in 1..Len(s) : s[v].action = "ACC" => ~Produces(s, u, v)

\* C20 as stated: on every sequence the optimiser builds the producer
\* relation is antisymmetric and transitive, every operation has at most
\* one parent and no accumulation has a producer.
C20_InTreeAsStated ==
    \A s \in CurrentSequences : Antisymmetric(s) /\ Transitive(s) /\ InTree(s)

\* C20, amended: on every sequence the optimiser builds the producer
\* relation is antisymmetric and relates an operation to its direct consumer
\* only (it is not transitive); every operation has at most one parent, which
\* comes later in the sequence, and no accumulation has a producer; in a
\* complete sequence the last operation is the only one without a parent.
C20_InTree ==
    /\ \A s \in CurrentSequences : Antisymmetric(s) /\ DirectOnly(s) /\ InTree(s)
    /\ \A Q \in LeafSequences :
          {u \in 1..Len(Q) : parent(Q, u) = 0} = {Len(Q)}

\* a complete sequence with a line of three operations, each the producer
\* of the next, and an operation with two producers
C20_Witness ==
    \E Q \in LeafSequences :
       /\ \E u, v, w \in 1..Len(Q) :
             Produces(Q, u, v) /\ Produces(Q, v, w) /\ ~Produces(Q, u, w)
       /\ \E u, v, w \in 1..Len(Q) :
             u # v /\ Produces(Q, u, w) /\ Produces(Q, v, w)
       /\ InTree(Q)
\* ------------------------------------------------------------------------
\* solve() run twice by a team of one thread, no deadline passing (C21)
\*
\* `call` keeps what the runs share and what the first run returned:
\*   [pc, run, orders, makespan, sequence]
\* orders holds, for every sequence the list scheduler was called on, the
\* order in which the heap of this build handed out its operations.
\* ------------------------------------------------------------------------
TwiceCall ==
    IF call = NoCall
    THEN [pc |-> "solve", run |-> 1, orders |-> {}, makespan |-> 0, sequence |-> <<>>]
    ELSE call

\* PopOrderOf with a heap that may hand out equal priorities in another order
\* at every call: a faulty variant that the determinism of solve() must reject
PopOrderOf_any(s) == PopOrders(s)

\* std::priority_queue of one build: pop_heap is a deterministic algorithm,
\* so the operations of a sequence come out in the order of the first call
PopOrderOf(s) ==
    LET seen == {p \in TwiceCall.orders : p[1] = s}
    IN  IF seen = {} THEN PopOrders(s) ELSE {p[2] : p \in seen}

\* Scheduler::schedule of the scheduler handed to init(), the run ending
\* before its deadline: the result and the pop order (list scheduler)
InTimeOutcomes(s) ==
    LET usable_threads == usable_threads_of(s, m_usable_threads)
    IN  IF m_scheduler = "list"
        THEN {[r |-> list_schedule_impl(s, usable_threads, ord), ord |-> ord] :
                 ord \in PopOrderOf(s)}
        ELSE IF m_scheduler = "bnb"
        THEN {[r |-> bnb_schedule_impl(s, usable_threads, m_makespan, SIZE_MAX),
               ord |-> <<>>]}
        ELSE {[r |-> gpu_schedule_impl(s, usable_threads, m_makespan, NDEBUG,
                                       omp_target_device),
               ord |-> <<>>]}

\* leaf task: set_timer and the call of the scheduler, which finishes in time
LeafScheduleInTime ==
    /\ \E l \in ltasks :
          /\ l.pc = "start"
          /\ LMayStart(l)
          /\ \E o \in InTimeOutcomes(l.deviceSequence) :
                /\ ~o.r.aborted
                /\ min_returned' = Min(min_returned, o.r.value)
                /\ ltasks' = (ltasks \ {l}) \cup
                       {[l EXCEPT !.deviceSequence = o.r.sequence,
                                  !.upper_bound = m_makespan,
                                  !.new_makespan = o.r.value,
                                  !.finished = TRUE,
                                  !.pc = "read_expired"]}
                /\ call' = IF m_scheduler = "list"
                           THEN [TwiceCall EXCEPT
                                   !.orders = @ \cup {<<l.deviceSequence, o.ord>>}]
                           ELSE call
    /\ UNCHANGED <<config, device, best, stats, deadline_passed, generator, btasks,
                   omp_tickets, leaf_sequences>>

\* main: init() and solve() once more on the same chain, with the same
\* scheduler, properties and upper bound
SolveAgain ==
    /\ solve_pc = "returned"
    /\ TwiceCall.run = 1
    /\ call' = [TwiceCall EXCEPT !.run = 2,
                                 !.makespan = m_makespan,
                                 !.sequence = m_optimal_sequence]
    /\ m_optimal_sequence' = make_max
    /\ m_makespan' = makespan(make_max)
    /\ m_timer_expired' = FALSE
    /\ m_pruned_branches' = [d \in 0..longest_possible_sequence(m_chain) |-> 0]
    /\ solve_pc' = "loop"
    /\ accs' = IF m_matrix_free THEN 0 ELSE m_chain.len - 1
    /\ gen_sequence' = <<>>
    /\ gen_chain' = InitialChainState
    /\ gen_eliminations' = <<>>
    /\ gen_stack' = <<>>
    /\ btasks' = {}
    /\ ltasks' = {}
    /\ omp_tickets' = 0
    /\ min_returned' = SIZE_MAX
    /\ leaf_sequences' = {}
    /\ UNCHANGED <<config, device, deadline_passed>>

\* the orders the heap may choose multiply over the leaves of a search, so
\* the list scheduler is run on the chains below the longest
InitTwice ==
    /\ InitOf(Chains \cup {S1Chain, S2Chain}, {SIZE_MAX})
    /\ omp_threads = 1
    /\ m_scheduler = "list" => m_chain.len < MaxLen

NextTwice ==
    \/ SolveLoop
    \/ AddAccumulation
    \/ AddElimination
    \/ LeafScheduleInTime
    \/ LeafAbort
    \/ LeafReadExpired
    \/ LeafWriteExpired
    \/ LeafEnterCritical
    \/ LeafInstall
    \/ SolveReturn
    \/ SolveAgain

SpecTwice == InitTwice /\ [][NextTwice]_vars

C22_ScenarioS1 ==
    (/\ solve_pc = "returned"
     /\ m_chain = S1Chain
     /\ ~m_matrix_free
     /\ m_usable_threads = 1) =>
       /\ Len(m_optimal_sequence) = 1
       /\ m_optimal_sequence[1].action = "ACC"
       /\ m_optimal_sequence[1].fma = 9
       /\ makespan(m_optimal_sequence) = 9

\* solve() has returned on S1 with the recursive scheduler, the accumulation
\* scheduled on thread 0 from 0 to 9
C22_Witness ==
    /\ solve_pc = "returned"
    /\ m_chain = S1Chain
    /\ ~m_matrix_free
    /\ m_usable_threads = 1
    /\ m_scheduler = "bnb"
    /\ m_makespan = 9
    /\ Len(m_optimal_sequence) = 1
    /\ m_optimal_sequence[1].is_scheduled

\* C23 as stated: on the chain (5x4)(4x3) with tangent accumulations of cost
\* 60 each, two usable threads and matrix_free off, the sequence the
\* optimiser returns with the recursive scheduler has the makespan 60.
C23_ScenarioS2AsStated ==
    (/\ solve_pc = "returned"
     /\ m_chain = S2Chain
     /\ ~m_matrix_free
     /\ m_usable_threads = 2
     /\ m_scheduler = "bnb") =>
       makespan(m_optimal_sequence) = 60

\* C23: in scenario S2 the returned sequence is the two accumulations, run
\* side by side from 0 to 60 on two threads, and the multiplication of cost
\* 5 * 4 * 3 = 60 that starts when both have ended; its makespan is 120.
C23_ScenarioS2 ==
    (/\ solve_pc = "returned"
     /\ m_chain = S2Chain
     /\ ~m_matrix_free
     /\ m_usable_threads = 2
     /\ m_scheduler = "bnb") =>
       LET S == m_optimal_sequence
       IN  /\ Len(S) = 3
           /\ \A x \in 1..2 :
                 /\ S[x].action = "ACC" /\ S[x].mode = "TAN"
                 /\ S[x].fma = 60 /\ S[x].start_time = 0
           /\ S[1].thread # S[2].thread
           /\ S[3].action = "MUL" /\ S[3].fma = 60 /\ S[3].start_time = 60
           /\ makespan(S) = 120
           /\ m_makespan = 120

\* solve() has returned on S2 with the recursive scheduler and two threads
C23_Witness ==
    /\ solve_pc = "returned"
    /\ m_chain = S2Chain
    /\ ~m_matrix_free
    /\ m_usable_threads = 2
    /\ m_scheduler = "bnb"
    /\ m_optimal_sequence # make_max
    /\ is_scheduled(m_optimal_sequence)

\* ------------------------------------------------------------------------
\* The search below an upper bound (C24)
\* ------------------------------------------------------------------------
\* set_upper_bound called with a small value, or not at all; a team of one
\* thread
InitBound ==
    /\ InitOf(Chains, {SIZE_MAX} \cup 1..(MaxSlack + 1))
    /\ omp_threads = 1
    /\ m_usable_threads = MaxThreads

SpecBound == InitBound /\ [][Next]_vars

\* the test of add_elimination on the node of the task b
PruneTest(b) ==
    \/ critical_path(b.sequence) >= m_makespan
    \/ critical_path(b.sequence) > m_upper_bound

\* the complete sequences of fewer than MaxOps operations below the node of b
Completions(b) ==
    {T \in complete_from(m_chain, m_matrix_free, m_available_memory, b,
                         Last(b.stack).elim_idx) : Len(T) < MaxOps}

\* a candidate of the node applies
HasChild(b) ==
    \E e \in Last(b.stack).elim_idx..Len(b.eliminations), q \in 1..2 :
       /\ b.eliminations[e][q] # NoOp
       /\ CanApply(m_chain, m_matrix_free, m_available_memory, b.chain,
                   b.eliminations[e][q])

\* C24: a frame of add_elimination entered in time on an incomplete sequence
\* S counts a pruned branch and returns exactly when critical_path(S) >=
\* m_makespan or critical_path(S) > m_upper_bound, and goes on to its first
\* applicable candidate otherwise; below a pruned node no complete sequence
\* has an optimal makespan on the usable threads that is both below the
\* m_makespan read at the test and at most m_upper_bound; the critical path
\* of a sequence of the search is at least that of each of its prefixes.
C24_PruningSoundness ==
    [][\A b \in btasks \ btasks' :
          /\ \A n \in 1..Len(b.sequence) :
                critical_path(SubSeq(b.sequence, 1, n - 1)) <=
                   critical_path(SubSeq(b.sequence, 1, n))
          /\ (/\ ~deadline_passed'
              /\ solve_pc' # "aborted"
              /\ ~IsAccumulated(b.chain, m_chain.len - 1, 0)) =>
                /\ (m_pruned_branches' # m_pruned_branches) <=> PruneTest(b)
                /\ PruneTest(b) =>
                      /\ m_pruned_branches' =
                            [m_pruned_branches EXCEPT ![Len(b.sequence)] = @ + 1]
                      /\ \A after \in btasks' \ btasks :
                            Len(after.sequence) <= Len(b.sequence)
                      /\ \A T \in Completions(b) :
                            LET opt == Optimum(T, usable_threads_of(T, m_usable_threads))
                            IN  /\ critical_path(b.sequence) <= critical_path(T)
                                /\ critical_path(T) <= opt
                                /\ ~(opt < m_makespan /\ opt <= m_upper_bound)
                /\ (~PruneTest(b) /\ HasChild(b)) =>
                      \E after \in btasks' \ btasks :
                         /\ Len(after.sequence) = Len(b.sequence) + 1
                         /\ Front(after.sequence) = b.sequence]_vars

\* a node whose critical path equals the upper bound was explored down to a
\* leaf, a branch was pruned, and a sequence has been installed so that
\* m_makespan prunes as well
C24_Witness ==
    /\ m_upper_bound # SIZE_MAX
    /\ m_makespan < makespan(make_max)
    /\ \E d \in DOMAIN m_pruned_branches : m_pruned_branches[d] > 0
    /\ \E Q \in leaf_sequences :
          \E n \in count_accumulations(Q)..(Len(Q) - 1) :
             critical_path(SubSeq(Q, 1, n)) = m_upper_bound

\* ------------------------------------------------------------------------
\* The reference arguments of the search frames (C25)
\* ------------------------------------------------------------------------
\* the states of a task in which its top frame returns, on the way of the
\* task from b to its next frame entry (or to the return of its first frame)
RECURSIVE Returns(_, _, _, _)
Returns(chain, mf, mem, b) ==
    LET top == Last(b.stack)
    IN  IF top.elim_idx > Len(b.eliminations)
        THEN {b} \cup
             (IF Len(b.stack) = 1
              THEN {}
              ELSE UNION {Returns(chain, mf, mem, caller) : caller \in
                      {[b EXCEPT
                         !.stack = Front(Front(b.stack)) \o
                                      <<NextPair(b.stack[Len(b.stack) - 1])>>,
                         !.sequence = Front(b.sequence),
                         !.eliminations = Front(b.eliminations),
                         !.chain = Revert(b.chain, Last(b.sequence))]}})
        ELSE LET op == b.eliminations[top.elim_idx][top.pair_idx]
             IN  IF op = NoOp \/ ~CanApply(chain, mf, mem, b.chain, op)
                 THEN UNION {Returns(chain, mf, mem, skipped) : skipped \in
                         {[b EXCEPT !.stack[Len(b.stack)] = NextPair(top)]}}
                 ELSE {}

\* the task at the point where the frame it has entered goes on: at its
\* return for a leaf and for a pruned node, at its loops otherwise
AfterEntry(b) ==
    IF IsAccumulated(b.chain, m_chain.len - 1, 0) \/ PruneTest(b)
    THEN [b EXCEPT !.stack[Len(b.stack)].elim_idx = Len(b.eliminations) + 1]
    ELSE b

\* eliminations holds one row per operation of the sequence: the row pushed
\* for the operation on the chain the operation was applied to
RowPerOperation(S, E) ==
    /\ Len(E) = Len(S)
    /\ \A x \in 1..Len(S) :
          E[x] = push_possible_eliminations(m_chain, m_matrix_free,
                    m_available_memory, ChainAfter(SubSeq(S, 1, x)), S[x].j, S[x].i)

\* sequence, chain and eliminations are the arguments of the frame
Restored(frame, S, C, E) == AtCall(S, C, E) = frame.at_call

\* each frame of a stack was called by the frame below it after one
\* operation was pushed onto that frame's own arguments
CalledFromArguments(stack) ==
    \A d \in 1..(Len(stack) - 1) :
       LET mine == stack[d].at_call
           next == stack[d + 1].at_call
       IN  /\ Len(next.sequence) = Len(mine.sequence) + 1
           /\ Front(next.sequence) = mine.sequence
           /\ Front(next.eliminations) = mine.eliminations
           /\ next.chain = Apply(mine.chain, Last(next.sequence))

\* C25: at every node of the outer search eliminations holds one row per
\* operation of the sequence, and when a frame of add_accumulation or of
\* add_elimination returns, the sequence, the chain and the eliminations are
\* the ones the frame was called with; a frame therefore makes each of its
\* calls from its own arguments.
C25_FrameRestoration ==
    [][/\ RowPerOperation(gen_sequence, gen_eliminations)
       /\ CalledFromArguments(gen_stack)
       /\ (/\ solve_pc = "acc"
           /\ solve_pc' \in {"acc", "loop"}
           /\ Len(gen_stack') < Len(gen_stack)) =>
             Restored(Last(gen_stack), gen_sequence, gen_chain, gen_eliminations)
       /\ \A b \in btasks :
             /\ RowPerOperation(b.sequence, b.eliminations)
             /\ CalledFromArguments(b.stack)
       /\ \A b \in btasks \ btasks' :
             (~deadline_passed' /\ solve_pc' # "aborted") =>
                \A r \in Returns(m_chain, m_matrix_free, m_available_memory,
                                 AfterEntry(b)) :
                   /\ Restored(Last(r.stack), r.sequence, r.chain, r.eliminations)
                   /\ RowPerOperation(r.sequence, r.eliminations)]_vars

\* the candidates of the frames below the top frame that applied and whose
\* calls have returned
Visited(b) ==
    {b.eliminations[t[2]][t[3]] :
        t \in {t \in (1..(Len(b.stack) - 1)) \X (1..Len(b.eliminations)) \X (1..2) :
                 LET d == t[1]
                     r == t[2]
                     c == t[3]
                     cand == b.eliminations[r][c]
                     at == b.stack[d]
                 IN  /\ r <= Len(at.at_call.eliminations)
                     /\ cand # NoOp
                     /\ r >= (IF d = 1 THEN 1 ELSE b.stack[d - 1].elim_idx + 1)
                     /\ r < at.elim_idx \/ (r = at.elim_idx /\ c < at.pair_idx)
                     /\ CanApply(m_chain, m_matrix_free, m_available_memory,
                                 at.at_call.chain, cand)}}

\* the generator has come back from a call of add_accumulation and calls
\* again, and a task has come back from a call of add_elimination and has
\* called again two frames deep
C25_Witness ==
    /\ Len(gen_stack) >= 2
    /\ gen_stack[1].j > 0
    /\ \E b \in btasks :
          /\ Len(b.stack) >= 3
          /\ Visited(b) # {}

\* ------------------------------------------------------------------------
\* The assertions at a leaf of the outer search (C26)
\* ------------------------------------------------------------------------
\* the tasks in front of a frame of add_elimination that finds the Jacobian
\* (n - 1, 0) accumulated
AtLeaf == {b \in btasks : IsAccumulated(b.chain, m_chain.len - 1, 0)}

InitFrames == InitSched /\ m_scheduler = "bnb"

SpecFrames == InitFrames /\ [][BnbCall]_vars

\* the searches the call may have been: the whole search when the call
\* finished in time, and otherwise one for each time at which the deadline of
\* the scheduler's timer may have passed
Observed ==
    IF call.finished
    THEN {bnb_observed(call.input, m_usable_threads, call.upper_bound, SIZE_MAX)}
    ELSE {o \in {bnb_observed(call.input, m_usable_threads, call.upper_bound, fuel) :
                    fuel \in 0..MaxFuel} : o.expired}

\* the frames of the call that returned false
FalseReturns == UNION {o.returns : o \in Observed}

\* C27 as stated: a frame of schedule_op that returns false leaves
\* thread_loads, makespan, idling_time and every operation's thread,
\* start_time and is_scheduled as they were at its entry.
C27_RestoresAsStated ==
    (call.pc = "returned" /\ m_scheduler = "bnb") =>
       \A f \in FalseReturns : f.exit = f.entry

\* C27: a frame of schedule_op that returns false leaves thread_loads,
\* makespan, idling_time and every operation's start_time and is_scheduled
\* as they were at its entry, and the thread of every operation that was
\* scheduled at its entry; only the thread of an operation that is not
\* scheduled may have changed (to the last thread the frame or a frame below
\* it descended with).
C27_Restores ==
    (call.pc = "returned" /\ m_scheduler = "bnb") =>
       \A f \in FalseReturns :
          /\ f.exit.thread_loads = f.entry.thread_loads
          /\ f.exit.makespan = f.entry.makespan
          /\ f.exit.idling_time = f.entry.idling_time
          /\ \A x \in 1..Len(f.entry.working_copy) :
                LET before == f.entry.working_copy[x]
                    after == f.exit.working_copy[x]
                IN  /\ after.start_time = before.start_time
                    /\ after.is_scheduled = before.is_scheduled
                    /\ before.is_scheduled => after.thread = before.thread
                    /\ [after EXCEPT !.thread = before.thread] = before

\* a frame entered below the first frame has returned false after it had
\* descended, and the thread of an operation that is not scheduled is no
\* longer the one of the entry
C27_Witness ==
    /\ call.pc = "returned"
    /\ m_scheduler = "bnb"
    /\ \E f \in FalseReturns :
          /\ f.entry.makespan > 0
          /\ \E x \in 1..Len(f.entry.working_copy) :
                /\ ~f.entry.working_copy[x].is_scheduled
                /\ f.exit.working_copy[x].thread # f.entry.working_copy[x].thread

\* ------------------------------------------------------------------------
\* The bound of a node of the recursive scheduler (C28)
\* ------------------------------------------------------------------------
\* the nodes of the call: the passes of the loop over the threads
SearchNodes == UNION {o.nodes : o \in Observed}

\* the least makespan of the complete schedules below a node
LeastBelow(nd) == optimum_from(nd.at.working_copy, nd.at.thread_loads)

\* the test of the node fails: the search does not descend
Cut(nd) == Max(nd.lb, nd.at.makespan) >= nd.best_makespan

\* C28: in a search entered on a sequence without a schedule, the bound lb
\* of every node (the larger of floor((idling_time + sequential_makespan) /
\* usable_threads) and the critical path of the working copy) is at most the
\* makespan of every complete schedule below the node, and so is the
\* makespan of the node; below a node that is cut because max(lb, makespan)
\* >= best_makespan no complete schedule has a makespan under best_makespan.
C28_NodeBound ==
    (/\ call.pc = "returned"
     /\ m_scheduler = "bnb"
     /\ call.input = unscheduled(call.input)) =>
       \A nd \in SearchNodes :
          /\ nd.lb = node_bound(nd.at.idling_time, sequential_makespan(call.input),
                                m_usable_threads, nd.at.working_copy)
          /\ \A least \in {LeastBelow(nd)} :
                /\ nd.lb <= least
                /\ nd.at.makespan <= least
                /\ Cut(nd) => least >= nd.best_makespan

\* a search on a sequence without a schedule has found a schedule and cut a
\* node below which operations were still to be placed, by a bound above the
\* makespan of the node, on more than one thread
C28_Witness ==
    /\ call.pc = "returned"
    /\ m_scheduler = "bnb"
    /\ call.input = unscheduled(call.input)
    /\ m_usable_threads >= 2
    /\ \E nd \in SearchNodes :
          /\ Cut(nd)
          /\ nd.best_makespan < SIZE_MAX
          /\ nd.lb > nd.at.makespan
          /\ nd.at.idling_time > 0
          /\ \E x \in 1..Len(nd.at.working_copy) : ~nd.at.working_copy[x].is_scheduled

\* ------------------------------------------------------------------------
\* The threads an operation is tried on (C29)
\* ------------------------------------------------------------------------
\* the loops over the threads that ran to their end
ThreadLoops == UNION {o.loops : o \in Observed}

\* the threads with a load and the first of the threads without
Candidates(thread_loads) ==
    {t \in DOMAIN thread_loads :
        \/ thread_loads[t] # 0
        \/ \A u \in DOMAIN thread_loads : u < t => thread_loads[u] # 0}

\* the threads with a load are the first threads
LoadedPrefix(thread_loads) ==
    \A t \in DOMAIN thread_loads :
       thread_loads[t] # 0 => \A u \in 1..(t - 1) : thread_loads[u] # 0

\* C29: at every node of the recursive scheduler the threads with a load
\* other than 0 are the first threads; every thread an operation is tried on
\* has a load or is the first thread without one, and a loop over the
\* threads that runs to its end tries exactly these threads.
C29_EquivalentEmpty ==
    (call.pc = "returned" /\ m_scheduler = "bnb") =>
       /\ \A nd \in SearchNodes :
             /\ LoadedPrefix(nd.from)
             /\ LoadedPrefix(nd.at.thread_loads)
             /\ nd.t \in Candidates(nd.from)
       /\ \A lp \in ThreadLoops :
             /\ LoadedPrefix(lp.thread_loads)
             /\ 1..lp.tried = Candidates(lp.thread_loads)

\* a loop over the threads ended in front of a second thread without load,
\* and another one tried a thread with a load and the first one without
C29_Witness ==
    /\ call.pc = "returned"
    /\ m_scheduler = "bnb"
    /\ \E lp \in ThreadLoops :
          /\ lp.tried < m_usable_threads
          /\ lp.thread_loads[lp.tried] = 0
    /\ \E lp \in ThreadLoops :
          /\ lp.tried >= 2
          /\ lp.thread_loads[1] # 0
          /\ lp.thread_loads[lp.tried] = 0

\* ------------------------------------------------------------------------
\* The recursive scheduler on a sequence that comes with a schedule (C30)
\* ------------------------------------------------------------------------
\* C30: a call of the recursive scheduler that finishes in time returns the
\* makespan it returns, with the same threads and the same upper bound, on
\* the sequence of the same operations without a schedule (start times 0,
\* nothing scheduled).
C30_PreviousScheduleIgnored ==
    (call.pc = "returned" /\ m_scheduler = "bnb" /\ call.finished) =>
       call.value = bnb_schedule_impl(unscheduled(call.input), m_usable_threads,
                                      call.upper_bound, SIZE_MAX).value

\* ------------------------------------------------------------------------
\* The critical path of a sequence (C31)
\* ------------------------------------------------------------------------
\* the operations u, parent(u), parent(parent(u)), ... up to the one without
\* parent
RECURSIVE ChainToRoot(_, _)
ChainToRoot(s, u) ==
    IF parent(s, u) = 0 THEN <<u>> ELSE <<u>> \o ChainToRoot(s, parent(s, u))

\* the sum of fma over the first n operations of a chain
RECURSIVE SumAlong(_, _, _)
SumAlong(s, chain, n) ==
    IF n = 0 THEN 0 ELSE SumAlong(s, chain, n - 1) + s[chain[n]].fma

\* the end of the n-th operation of a chain when each operation starts at its
\* start time or at the end of the one before it, whichever is later
RECURSIVE EndAlong(_, _, _)
EndAlong(s, chain, n) ==
    IF n = 0 THEN 0
    ELSE Max(s[chain[n]].start_time, EndAlong(s, chain, n - 1)) + s[chain[n]].fma

\* the largest value of f over the operations of s, 0 for the empty sequence
Largest(values) == IF values = {} THEN 0 ELSE CHOOSE v \in values : \A w \in values : w <= v

\* the sequences of a call of the recursive scheduler: the caller's, before
\* and after the call, the same operations without a schedule, and the
\* working copies of the nodes of the search
Schedules ==
    {call.input, call.sequence, unscheduled(call.input)} \cup
    (IF call.pc = "returned" THEN {nd.at.working_copy : nd \in SearchNodes} ELSE {})

\* C31: Sequence::critical_path() is the largest value, over the operations
\* u, of the end of the chain u, parent(u), ... when each operation of the
\* chain starts at its own start_time or at the end accumulated so far,
\* whichever is later (an operation without parent gives start_time + fma);
\* when every start_time is 0 this is the largest sum of fma along such a
\* chain.
C31_CriticalPath ==
    \A s \in Schedules :
       /\ critical_path(s) =
             Largest({EndAlong(s, ChainToRoot(s, u), Len(ChainToRoot(s, u))) :
                         u \in 1..Len(s)})
       /\ \A u \in 1..Len(s) :
             parent(s, u) = 0 => critical_path_op(s, u, 0) = s[u].start_time + s[u].fma
       /\ (\A u \in 1..Len(s) : s[u].start_time = 0) =>
             critical_path(s) =
                Largest({SumAlong(s, ChainToRoot(s, u), Len(ChainToRoot(s, u))) :
                            u \in 1..Len(s)})

\* a sequence with a chain of three operations is held without start times,
\* and a working copy of the search has a critical path that its start times
\* raise above the largest sum of fma
C31_Witness ==
    /\ call.pc = "returned"
    /\ \E u \in 1..Len(call.input) :
          Len(ChainToRoot(call.input, u)) >= 3
    /\ \E s \in Schedules :
          /\ \E u \in 1..Len(s) : s[u].start_time > 0
          /\ \E u \in 1..Len(s) : ~s[u].is_scheduled
          /\ critical_path(s) > critical_path(unscheduled(s))

\* ------------------------------------------------------------------------
\* The calls of the list scheduler
\* ------------------------------------------------------------------------
\* chains whose dimensions step from 1 to the largest in the middle and
\* whose DAG sizes cycle from the second size: the accumulations differ
\* enough in cost to let the loads of the threads drift apart
RampOf(n) ==
    [len |-> n,
     dims |-> [x \in 0..n |-> IF 2 * x > n THEN MaxDim ELSE 1],
     edges |-> [x \in 0..(n - 1) |-> 1 + ((x + 1) % MaxEdges)]]

ListChains == Chains \cup {RampOf(n) : n \in 1..MaxLen}

\* a call of PriorityListScheduler::schedule_impl with a sequence of the
\* optimiser, unscheduled or scheduled by an earlier call
InitList ==
    /\ m_chain \in ListChains
    /\ m_matrix_free \in BOOLEAN
    /\ m_available_memory = 0
    /\ m_usable_threads \in 1..MaxThreads
    /\ m_upper_bound \in {SIZE_MAX}
    /\ m_scheduler = "list"
    /\ omp_threads = 1
    /\ omp_deferred = FALSE
    /\ NDEBUG \in Builds(m_scheduler)
    /\ omp_target_device \in Builds(m_scheduler)
    /\ InitSearch
    /\ \E s \in Inputs(m_chain, m_matrix_free, m_available_memory) :
          \E input \in Entries(s) :
             \E upper_bound \in UpperBounds(input) :
                call = [pc |-> "entry", input |-> input, sequence |-> input,
                        upper_bound |-> upper_bound, value |-> 0, finished |-> TRUE,
                        again |-> FALSE, first_finished |-> TRUE]
    /\ device = NoDevice

SpecList == InitList /\ [][ListCall]_vars

\* ------------------------------------------------------------------------
\* The order of the list scheduler (C32)
\* ------------------------------------------------------------------------
\* the sequence after the first n operations of the order were placed
PassAfter(s, usable_threads, ord, n) ==
    LET done == {ord[x] : x \in 1..n}
        final == list_schedule_impl(s, usable_threads, ord).sequence
    IN  [x \in 1..Len(s) |-> IF x \in done THEN final[x] ELSE reset_schedule(s)[x]]

\* the operations whose result s[u] consumes
ProducersOf(s, u) == {x \in 1..Len(s) : Less(s[u], s[x])}

\* C32: the list scheduler takes the operations in an order of descending
\* level and, within a level, of descending fma, takes every operation
\* exactly once, and finds all producers of the operation it takes already
\* scheduled in this pass, so that the earliest start it computes comes from
\* the start times of this pass.
C32_ListOrder ==
    (call.pc = "returned" /\ m_scheduler = "list") =>
       /\ \E ord \in PopOrders(call.input) :
             call.sequence = list_schedule_impl(call.input, m_usable_threads, ord).sequence
       /\ \A ord \in PopOrders(call.input) :
             LET s == call.input
                 final == list_schedule_impl(s, m_usable_threads, ord).sequence
             IN  /\ Len(ord) = Len(s)
                 /\ {ord[n] : n \in 1..Len(ord)} = 1..Len(s)
                 /\ \A n, m \in 1..Len(ord) :
                       n < m =>
                          \/ level(s, ord[n]) > level(s, ord[m])
                          \/ /\ level(s, ord[n]) = level(s, ord[m])
                             /\ s[ord[n]].fma >= s[ord[m]].fma
                 /\ \A n \in 1..Len(ord) :
                       /\ ProducersOf(s, ord[n]) \subseteq {ord[x] : x \in 1..(n - 1)}
                       /\ earliest_start(PassAfter(s, m_usable_threads, ord, n - 1), ord[n])
                             = earliest_start(final, ord[n])
                       /\ final[ord[n]].start_time >= earliest_start(final, ord[n])
                       /\ final[ord[n]].is_scheduled

\* the list scheduler has scheduled a sequence that came with the schedule
\* of an earlier call, with operations on three levels, two operations of
\* one level with different fma, and an operation that waits for a producer
C32_Witness ==
    /\ call.pc = "returned"
    /\ m_scheduler = "list"
    /\ is_scheduled(call.input)
    /\ \E u, v, w \in 1..Len(call.input) :
          /\ level(call.input, u) > level(call.input, v)
          /\ level(call.input, v) > level(call.input, w)
    /\ \E u, v \in 1..Len(call.input) :
          /\ level(call.input, u) = level(call.input, v)
          /\ call.input[u].fma > call.input[v].fma
    /\ \E u \in 1..Len(call.sequence) :
          /\ ProducersOf(call.sequence, u) # {}
          /\ call.sequence[u].start_time = earliest_start(call.sequence, u)
          /\ call.sequence[u].start_time # call.input[u].start_time

\* ------------------------------------------------------------------------
\* The thread the list scheduler chooses (C33)
\* ------------------------------------------------------------------------
\* the sequence and the thread loads after the first n iterations of the
\* while loop
RECURSIVE ListAfter(_, _, _, _)
ListAfter(s, usable_threads, ord, n) ==
    IF n = 0
    THEN [s |-> reset_schedule(s), thread_loads |-> [t \in 1..usable_threads |-> 0]]
    ELSE LET before == ListAfter(s, usable_threads, ord, n - 1)
         IN  list_place(before.s, before.thread_loads, ord[n])

\* the start of an operation with earliest start es on thread t
StartOn(thread_loads, es, t) == Max(thread_loads[t], es)

\* C33: the list scheduler places every operation it takes on a thread with
\* the least max(thread_loads[t], earliest_start), among these on one with
\* the least idle gap, among these on the one with the lowest index; the
\* start time is that least start, and the load of the thread becomes the
\* start time plus the fma of the operation while the other loads stay.
C33_ThreadChoice ==
    (call.pc = "returned" /\ m_scheduler = "list") =>
       \A ord \in PopOrders(call.input) :
          \A n \in 1..Len(ord) :
             \A before \in {ListAfter(call.input, m_usable_threads, ord, n - 1)} :
                \A after \in {list_place(before.s, before.thread_loads, ord[n])} :
                   LET u == ord[n]
                       loads == before.thread_loads
                       es == earliest_start(before.s, u)
                       threads == 1..m_usable_threads
                       earliest == {t \in threads :
                                       \A o \in threads :
                                          StartOn(loads, es, t) <= StartOn(loads, es, o)}
                       tightest == {t \in earliest :
                                       \A o \in earliest :
                                          StartOn(loads, es, t) - loads[t]
                                             <= StartOn(loads, es, o) - loads[o]}
                       chosen == after.s[u].thread + 1
                   IN  /\ chosen \in tightest
                       /\ \A o \in tightest : chosen <= o
                       /\ after.s[u].start_time = StartOn(loads, es, chosen)
                       /\ after.s[u].is_scheduled
                       /\ after.thread_loads[chosen] = after.s[u].start_time + after.s[u].fma
                       /\ \A o \in threads \ {chosen} : after.thread_loads[o] = loads[o]
                       /\ \A x \in (1..Len(after.s)) \ {u} : after.s[x] = before.s[x]

\* the list scheduler has placed, on two threads, an operation on the second
\* thread because it starts there earlier, and an operation on the second
\* thread because, at the same start, the gap before it is smaller there
C33_Witness ==
    /\ call.pc = "returned"
    /\ m_scheduler = "list"
    /\ m_usable_threads = 2
    /\ \E ord \in PopOrders(call.input) :
          /\ call.sequence = list_schedule_impl(call.input, 2, ord).sequence
          /\ \E n \in 1..Len(ord) :
                LET before == ListAfter(call.input, 2, ord, n - 1)
                    es == earliest_start(before.s, ord[n])
                IN  /\ StartOn(before.thread_loads, es, 2) < StartOn(before.thread_loads, es, 1)
                    /\ call.sequence[ord[n]].thread = 1
          /\ \E n \in 1..Len(ord) :
                LET before == ListAfter(call.input, 2, ord, n - 1)
                    es == earliest_start(before.s, ord[n])
                IN  /\ StartOn(before.thread_loads, es, 2) = StartOn(before.thread_loads, es, 1)
                    /\ before.thread_loads[2] > before.thread_loads[1]
                    /\ call.sequence[ord[n]].thread = 1

\* ------------------------------------------------------------------------
\* The record of an expired budget (C34)
\* ------------------------------------------------------------------------
\* the search in which the deadline passes only while a leaf task is in its
\* call of the scheduler: the budget of the call is the time the optimiser
\* has left, so deadline_passed tells that the call of some leaf task has
\* ended without finishing in time
NextExpiry ==
    \/ SolveLoop
    \/ AddAccumulation
    \/ AddElimination
    \/ LeafSchedule
    \/ LeafAbort
    \/ LeafReadExpired
    \/ LeafWriteExpired
    \/ LeafEnterCritical
    \/ LeafInstall
    \/ SolveReturn

SpecExpiry == Init /\ [][NextExpiry]_vars

\* C34: when the scheduler run of a leaf task has ended without finishing
\* in time, m_timer_expired is true after solve() has returned, however the
\* leaf tasks interleave.
C34_ExpiryRecorded ==
    (solve_pc = "returned" /\ deadline_passed) => m_timer_expired

\* ------------------------------------------------------------------------
\* The result and the caller's upper bound (C35)
\* ------------------------------------------------------------------------
\* C35 as stated: a sequence returned by solve() other than the sentinel
\* has a makespan of at most the upper bound given by set_upper_bound, with
\* the list scheduler and with the branch & bound scheduler at the leaves.
C35_ResultWithinBound ==
    (/\ solve_pc = "returned"
     /\ m_optimal_sequence # make_max
     /\ m_scheduler \in {"list", "bnb"}) =>
       makespan(m_optimal_sequence) <= m_upper_bound

\* C35: the upper bound limits the critical path of the nodes the search
\* descends from, not the makespan of the result: a sequence returned by
\* solve() other than the sentinel has, without its last operation, a
\* critical path of at most the upper bound, and so has every shorter
\* prefix; its makespan is m_makespan, below the sentinel's.
C35_PrefixWithinBound ==
    (solve_pc = "returned" /\ m_optimal_sequence # make_max) =>
       /\ \A k \in 1..(Len(m_optimal_sequence) - 1) :
             critical_path(SubSeq(unscheduled(m_optimal_sequence), 1, k)) <= m_upper_bound
       /\ m_makespan < makespan(make_max)
       /\ m_scheduler # "gpu" => makespan(m_optimal_sequence) = m_makespan

\* solve() has returned, after set_upper_bound, a sequence whose makespan
\* and whose critical path are above the upper bound
C35_Witness ==
    /\ solve_pc = "returned"
    /\ m_optimal_sequence # make_max
    /\ m_upper_bound < SIZE_MAX
    /\ m_scheduler \in {"list", "bnb"}
    /\ Len(m_optimal_sequence) >= 3
    /\ makespan(m_optimal_sequence) > m_upper_bound
    /\ critical_path(unscheduled(m_optimal_sequence)) > m_upper_bound

\* ------------------------------------------------------------------------
\* The length of the sequences of the search (C36)
\* ------------------------------------------------------------------------
\* the number of accumulations of a sequence
Accumulations(s) == Cardinality({x \in 1..Len(s) : s[x].action = "ACC"})

\* the sequences held by the search: the one of Phase A, those of the
\* Phase B tasks with their frames, those of the leaf tasks and their history
HeldSequences ==
    {gen_sequence} \cup {b.sequence : b \in btasks}
       \cup {f.at_call.sequence : f \in UNION {{b.stack[x] : x \in 1..Len(b.stack)} : b \in btasks}}
       \cup {l.deviceSequence : l \in ltasks} \cup leaf_sequences

RanToEnd ==
    /\ call.pc = "returned"
    /\ m_scheduler = "gpu"
    /\ omp_target_device
    /\ device # NoDevice
    /\ ~device.in_loop
    /\ device.iter_guard < ITER_GUARD

\* C37: on an unscheduled sequence, when neither a deadline nor the
\* iteration guard cuts the search, the explicit-stack scheduler returns the
\* makespan the recursive scheduler returns for the same threads and upper
\* bound, and a makespan below the upper bound is the makespan of the
\* schedule it leaves, which respects the producers and the threads.
C37_SearchesAgree ==
    (RanToEnd /\ call.input = unscheduled(call.input)) =>
       /\ call.value = bnb_schedule_impl(call.input, m_usable_threads,
                                         call.upper_bound, SIZE_MAX).value
       /\ call.value < call.upper_bound =>
             /\ is_scheduled(call.sequence)
             /\ makespan(call.sequence) = call.value
             /\ ScheduleRespected(call.sequence)

\* ------------------------------------------------------------------------
\* scheduler/bnb_block.hpp
\*
\* The state captured by the lambda schedule_op of lambda_schedule is the
\* record
\*   [working_copy, sequence, thread_loads, makespan, idling_time,
\*    best_makespan, ret]
\* thread_loads is the array behind the pointer tl, shared by the calls for
\* all sequences; ret is the value the frame returns.
\* ------------------------------------------------------------------------
RECURSIVE block_op_loop(_, _, _, _, _)
RECURSIVE block_thread_loop(_, _, _, _, _, _)

\* the lambda schedule_op: the loop over the operations and the leaf
block_schedule_op(st, usable_threads, lower_bound) ==
    block_op_loop(st, usable_threads, lower_bound, 1, TRUE)

\* the end of the lambda: `if (everything_scheduled)`
block_leaf(st, lower_bound, everything_scheduled) ==
    IF everything_scheduled /\ st.makespan < st.best_makespan
    THEN [st EXCEPT
            !.best_makespan = st.makespan,
            !.sequence = [x \in 1..Len(st.sequence) |->
                            [st.sequence[x] EXCEPT
                               !.thread = st.working_copy[x].thread,
                               !.start_time = st.working_copy[x].start_time,
                               !.is_scheduled = TRUE]],
            !.ret = (st.makespan <= lower_bound)]
    ELSE [st EXCEPT !.ret = FALSE]

\* the loop over the operations from op_idx on: every operation that is not
\* scheduled is taken, whether its producers are scheduled or not
block_op_loop(st, usable_threads, lower_bound, op_idx, everything_scheduled) ==
    IF op_idx > Len(st.sequence)
    THEN block_leaf(st, lower_bound, everything_scheduled)
    ELSE IF st.working_copy[op_idx].is_scheduled
    THEN block_op_loop(st, usable_threads, lower_bound, op_idx + 1,
                       everything_scheduled)
    ELSE CHOOSE after \in
            {IF r.ret THEN r
             ELSE block_op_loop([r EXCEPT !.working_copy[op_idx].is_scheduled = FALSE],
                                usable_threads, lower_bound, op_idx + 1, FALSE) :
               r \in {block_thread_loop(
                         [st EXCEPT !.working_copy[op_idx].is_scheduled = TRUE],
                         usable_threads, lower_bound, op_idx, 1, FALSE)}} : TRUE

\* the loop over the threads from t on for the operation op_idx: the start
\* is the load of the thread (`start` is 0) and the lower bound lb is 0
block_thread_loop(st, usable_threads, lower_bound, op_idx, t, tried_empty_processor) ==
    IF t > usable_threads
    THEN [st EXCEPT !.ret = FALSE]
    ELSE IF st.thread_loads[t] = 0 /\ tried_empty_processor
    THEN [st EXCEPT !.ret = FALSE]
    ELSE LET tried == tried_empty_processor \/ st.thread_loads[t] = 0
             old_start_time == st.working_copy[op_idx].start_time
             start_time == Max(st.thread_loads[t], 0)
             old_thread_load == st.thread_loads[t]
             placed == [st EXCEPT
                          !.working_copy[op_idx].start_time = start_time,
                          !.thread_loads[t] = start_time + st.sequence[op_idx].fma,
                          !.idling_time = @ + (start_time - old_thread_load),
                          !.makespan = Max(@, start_time + st.sequence[op_idx].fma)]
         IN  CHOOSE after \in
                {IF sub.ret THEN sub
                 ELSE block_thread_loop(
                         [sub EXCEPT !.thread_loads[t] = old_thread_load,
                                     !.idling_time = st.idling_time,
                                     !.makespan = st.makespan,
                                     !.working_copy[op_idx].start_time = old_start_time],
                         usable_threads, lower_bound, op_idx, t + 1, tried) :
                   sub \in {IF Max(0, placed.makespan) < placed.best_makespan
                            THEN block_schedule_op(
                                    [placed EXCEPT !.working_copy[op_idx].thread = t - 1],
                                    usable_threads, lower_bound)
                            ELSE [placed EXCEPT !.ret = FALSE]}} : TRUE

\* BnBBlockScheduler::lambda_schedule: the state of the lambda when the
\* first frame has returned
lambda_schedule(sequence, usable_threads, working_copy, best_makespan, thread_loads, lower_bound, upper_bound) ==
    LET st0 == [working_copy |-> working_copy, sequence |-> sequence,
                thread_loads |-> thread_loads, makespan |-> 0, idling_time |-> 0,
                best_makespan |-> best_makespan, ret |-> FALSE]
    IN  IF lower_bound >= upper_bound THEN st0
        ELSE block_schedule_op(st0, usable_threads, lower_bound)

\* the second loop of schedule_gpu from the sequence i on, run by one thread:
\* the sequences with the schedules written to them and the array behind tl
RECURSIVE schedule_gpu_loop(_, _, _, _, _)
schedule_gpu_loop(sequences, threads, upper_bound, tl, i) ==
    IF i > Len(sequences) THEN [sequences |-> sequences, tl |-> tl]
    ELSE CHOOSE after \in
            {schedule_gpu_loop([sequences EXCEPT ![i] = r.sequence], threads,
                               upper_bound, r.thread_loads, i + 1) :
               r \in {lambda_schedule(sequences[i],
                                      usable_threads_of(sequences[i], threads),
                                      reset_schedule(sequences[i]), upper_bound, tl,
                                      critical_path(reset_schedule(sequences[i])),
                                      upper_bound)}} : TRUE

\* what the words behind the end of vec_thread_loads may hold
BehindVector == {0, 1}

\* some call of lambda_schedule uses more threads than vec_thread_loads, which
\* has one entry per sequence, has entries
Overflows(sequences, threads) ==
    \E i \in 1..Len(sequences) : usable_threads_of(sequences[i], threads) > Len(sequences)

\* the value schedule_gpu returns, as an index from 1: `return 0`
schedule_gpu_index(sequences) == 1

\* BnBBlockScheduler::schedule_gpu on the collected sequences: the outcomes
\* of the call.  Accesses behind the end of vec_thread_loads read one of
\* the values of BehindVector or end the program.
schedule_gpu(sequences, threads, upper_bound) ==
    LET width == Max(Len(sequences), MaxThreads)
        arrays == {[t \in 1..width |-> IF t <= Len(sequences) THEN 0 ELSE v] :
                     v \in IF Overflows(sequences, threads) THEN BehindVector ELSE {0}}
    IN  {[aborted |-> FALSE,
          sequences |-> schedule_gpu_loop(sequences, threads, upper_bound, tl, 1).sequences,
          index |-> schedule_gpu_index(sequences)] : tl \in arrays}
        \cup (IF Overflows(sequences, threads)
              THEN {[aborted |-> TRUE, sequences |-> sequences, index |-> 1]}
              ELSE {})

\* ------------------------------------------------------------------------
\* optimizer/bnb_block.hpp: BnBBlockOptimizer with a team of one thread.
\* solve() and add_accumulation are those of BranchAndBoundOptimizer; a leaf
\* of add_elimination appends its sequence to `sequences`, kept in
\* call.sequences, and schedule_all_late runs after the parallel region.
\* ------------------------------------------------------------------------
\* add_elimination of BnBBlockOptimizer
BlockAddElimination ==
    /\ ~deadline_passed
    /\ \E b0 \in btasks :
          /\ BMayStep(b0)
          /\ LET b == [b0 EXCEPT !.running = TRUE]
                 returned == BReturn(m_chain, m_matrix_free, m_available_memory, b)
                 lower_bound == critical_path(b.sequence)
             IN  IF IsAccumulated(b.chain, m_chain.len - 1, 0)
                 THEN /\ btasks' = (btasks \ {b0}) \cup returned
                      /\ call' = [call EXCEPT !.sequences = Append(@, b.sequence)]
                      /\ leaf_sequences' = leaf_sequences \cup {b.sequence}
                      /\ UNCHANGED <<ltasks, omp_tickets, m_pruned_branches>>
                 ELSE IF lower_bound >= m_makespan \/ lower_bound > m_upper_bound
                 THEN /\ btasks' = (btasks \ {b0}) \cup returned
                      /\ m_pruned_branches' =
                            [m_pruned_branches EXCEPT ![Len(b.sequence)] = @ + 1]
                      /\ UNCHANGED <<ltasks, omp_tickets, leaf_sequences, call>>
                 ELSE /\ btasks' = (btasks \ {b0}) \cup
                            NextNode(m_chain, m_matrix_free, m_available_memory, b)
                      /\ UNCHANGED <<ltasks, omp_tickets, m_pruned_branches,
                                     leaf_sequences, call>>
    /\ UNCHANGED <<config, device, best, m_timer_expired, deadline_passed,
                   generator, min_returned>>

\* schedule_all_late and the return of solve()
ScheduleAllLate ==
    /\ solve_pc = "barrier"
    /\ btasks = {}
    /\ call.pc = "collect"
    /\ \E r \in schedule_gpu(call.sequences, m_usable_threads, m_makespan) :
          IF r.aborted
          THEN /\ solve_pc' = "aborted"
               /\ UNCHANGED <<call, best>>
          ELSE /\ solve_pc' = "returned"
               /\ call' = [call EXCEPT !.pc = "scheduled", !.sequences = r.sequences]
               /\ m_optimal_sequence' = r.sequences[r.index]
               /\ m_makespan' = makespan(r.sequences[r.index])
    /\ UNCHANGED <<config, device, stats, deadline_passed, accs, gen_sequence,
                   gen_chain, gen_eliminations, gen_stack, tasks, history>>

\* BnBBlockOptimizer after init(): no memory limit, no upper bound, a time
\* budget that does not run out
InitBlock ==
    /\ m_chain \in Chains
    /\ m_matrix_free \in BOOLEAN
    /\ m_available_memory = 0
    /\ m_usable_threads \in 1..MaxThreads
    /\ m_upper_bound = SIZE_MAX
    /\ m_scheduler = "block"
    /\ omp_threads = 1
    /\ omp_deferred \in BOOLEAN
    /\ NDEBUG = TRUE
    /\ omp_target_device = TRUE
    /\ InitSearch
    /\ call = [pc |-> "collect", sequences |-> <<>>]
    /\ device = NoDevice

NextBlock ==
    \/ SolveLoop
    \/ AddAccumulation
    \/ BlockAddElimination
    \/ ScheduleAllLate

SpecBlock == InitBlock /\ [][NextBlock]_vars

\* C38: the sequence BnBBlockOptimizer::solve returns has, among the
\* sequences collected, a schedule of least makespan, is scheduled in all
\* its operations, and its schedule respects the producers and the threads.
C38_BestCollected ==
    (solve_pc = "returned" /\ m_scheduler = "block") =>
       /\ \A i \in 1..Len(call.sequences) :
             makespan(m_optimal_sequence) <= makespan(call.sequences[i])
       /\ is_scheduled(m_optimal_sequence)
       /\ ScheduleRespected(m_optimal_sequence)

\* ------------------------------------------------------------------------
\* The indices of the explicit-stack scheduler (C39)
\* ------------------------------------------------------------------------
\* the pass of the while loop that starts in the state g reaches the section
\* "Schedule operation" with skip_changes false
SchedulesIn(g, usable_threads) ==
    LET n == Len(g.working_copy)
    IN  /\ g.in_loop
        /\ g.iter_guard + 1 < ITER_GUARD
        /\ ~(g.op_idx >= n /\ g.depth = 0)
        /\ ~(/\ g.op_idx < n
             /\ \/ g.working_copy[g.op_idx + 1].is_scheduled
                \/ ~is_schedulable(g.working_copy, g.op_idx + 1))
        /\ g.thread_idx < usable_threads

\* C39: in front of every pass of the while loop of nonrecursive_schedule_op
\* the operation the pass schedules and the operations the layers of the
\* stack name have indices below working_copy.length, the thread whose load
\* is accessed has an index below usable_threads, which is within the 20
\* entries of thread_loads, and the stack holds between 1 and 20 layers.
C39_BoundsSafety ==
    (call.pc = "device" /\ device.in_loop) =>
       /\ SchedulesIn(device, m_usable_threads) =>
             /\ device.op_idx < Len(device.working_copy)
             /\ device.thread_idx < m_usable_threads
             /\ m_usable_threads <= 20
       /\ \A x \in 1..Len(device.stack_array) :
             device.stack_array[x].op_idx < Len(device.working_copy)
       /\ Len(device.stack_array) \in 1..20

\* ------------------------------------------------------------------------
\* The critical path on the device and on the host (C40)
\* ------------------------------------------------------------------------
\* the sequences of a call of a scheduler: the caller's sequence before and
\* after the call, the same operations without a schedule, and the
\* partially scheduled working copy of the explicit-stack scheduler
CallSequences ==
    (IF call.pc \in {"entry", "device", "returned", "aborted"}
     THEN {call.input, call.sequence, unscheduled(call.input)} ELSE {})
       \cup (IF device # NoDevice THEN {device.working_copy} ELSE {})

\* C40: device_critical_path on the copy of a sequence returns what
\* Sequence::critical_path returns on the sequence, whether the sequence is
\* scheduled, partially scheduled or unscheduled.
C40_DeviceCriticalPath ==
    \A s \in CallSequences : device_critical_path(s) = critical_path(s)

====
